---- MODULE Spec2Model ----
(***************************************************************************)
(* A model of the forget orchestrator (src/src/rag/forget.py), the query   *)
(* orchestrator (src/src/rag/query_engine.py) and the stores they drive:   *)
(* the vector index (src/src/indexer/vector_store.py), the chat history    *)
(* (src/src/storage/chat_history.py), the document registry                *)
(* (src/src/storage/document_registry.py) and the audit log                *)
(* (src/src/storage/audit.py).                                             *)
(*                                                                         *)
(* Every call of a collaborator is one step of the calling process, so     *)
(* that two calls can interleave between their store reads and writes.     *)
(* A collaborator call may raise; the step that makes the call also runs   *)
(* the caller's handler for it.                                            *)
(***************************************************************************)
EXTENDS Integers, Sequences, FiniteSets, TLC

VARIABLES
    collection,   \* whether the Qdrant collection exists
    index,        \* the points of the collection: [document_id, chunk]
    messages,     \* the rows of the messages table
    nextMsgId,    \* AUTOINCREMENT of the messages table
    registry,     \* documents table: document id -> status ("none": no row)
    audit,        \* the rows of audit_log, in insertion order
    auditEnabled, \* AuditLogger.enabled
    pc,           \* per process: the next collaborator call of the running operation
    req,          \* per process: the operation and its arguments
    result,       \* per process: the ForgetResult under construction
    rows,         \* per process: the rows fetched by the purge's SELECT
    outcome,      \* per process: "none" | "returned" | "raised" (how the call ended)
    obs,          \* per process: what the call did so far (history, not program state)
    calls,        \* per process: number of operations started so far
    qry,          \* per process: the locals of a running query()
    fn,           \* the library function applied last: its name, arguments, result
    llm_provider, \* RAGEngine.llm_provider, by provider name
    conversations \* ChatHistory: the ids in the conversations table

vars == <<collection, index, messages, nextMsgId, registry, audit, auditEnabled,
          pc, req, result, rows, outcome, obs, calls, qry, fn,
          llm_provider, conversations>>

stores == <<collection, index, messages, nextMsgId, registry, audit, auditEnabled>>

(***************************************************************************)
(* Bounds and fixtures                                                     *)
(***************************************************************************)
MaxChunks == 1       \* chunks per document in the index
MaxCalls == 1        \* operations started in one behaviour

Procs == {1, 2}
SeqProcs == {1}

DocIds == {"d1", "d2"}
FilePathOf == [d \in DocIds |-> IF d = "d1" THEN "/data/a.eml" ELSE "/data/b.txt"]
SenderOf == [d \in DocIds |-> IF d = "d1" THEN "Ewa" ELSE "Jan"]
SourceTypeOf == [d \in DocIds |-> IF d = "d1" THEN "email" ELSE "whatsapp"]
FilePaths == {FilePathOf[d] : d \in DocIds}
Senders == {SenderOf[d] : d \in DocIds}
SourceTypes == {SourceTypeOf[d] : d \in DocIds}

Points == {[document_id |-> d, chunk |-> c] : d \in DocIds, c \in 1..MaxChunks}

\* sources lists of the assistant messages already stored when a behaviour starts
InitSources == {<<>>, <<"d1">>, <<"d1", "d2">>, <<"d2", "d2">>}

MaxDetailLen == 500
Reasons == {Len("user_request"), MaxDetailLen + 1}   \* a reason is modelled by its length

NoException == "None"

(***************************************************************************)
(* Metadata of a point or of a stored source: the payload fields the       *)
(* deletion filters and the purges compare.                                *)
(***************************************************************************)
Meta(d, key) ==
    CASE key = "document_id" -> d
      [] key = "file_path" -> FilePathOf[d]
      [] key = "sender" -> SenderOf[d]
      [] key = "source_type" -> SourceTypeOf[d]

Matching(idx, key, value) == {v \in idx : Meta(v.document_id, key) = value}

BoolInt(b) == IF b THEN 1 ELSE 0

(***************************************************************************)
(* VectorStore                                                             *)
(***************************************************************************)
VectorFaults == {"none", "raise", "swallowed_unapplied", "swallowed_applied"}

\* delete_document: False without a collection; otherwise the delete request,
\* whose exception is swallowed (the request may or may not have been applied).
\* Only collection_exists can raise to the caller.
delete_document(idx, coll, d, fault) ==
    IF fault = "raise" THEN [index |-> idx, ret |-> 0, exc |-> "qdrant unreachable"]
    ELSE IF ~coll THEN [index |-> idx, ret |-> 0, exc |-> NoException]
    ELSE IF fault = "none"
         THEN [index |-> idx \ Matching(idx, "document_id", d), ret |-> 1, exc |-> NoException]
    ELSE IF fault = "swallowed_applied"
         THEN [index |-> idx \ Matching(idx, "document_id", d), ret |-> 0, exc |-> NoException]
    ELSE [index |-> idx, ret |-> 0, exc |-> NoException]

\* delete_by_filter: the points count before minus the count after.
delete_by_filter(idx, coll, key, value, fault) ==
    IF fault = "raise" THEN [index |-> idx, ret |-> 0, exc |-> "qdrant unreachable"]
    ELSE IF ~coll THEN [index |-> idx, ret |-> 0, exc |-> NoException]
    ELSE IF fault = "none"
         THEN [index |-> idx \ Matching(idx, key, value),
               ret |-> Cardinality(idx) - Cardinality(idx \ Matching(idx, key, value)),
               exc |-> NoException]
    ELSE IF fault = "swallowed_applied"
         THEN [index |-> idx \ Matching(idx, key, value), ret |-> 0, exc |-> NoException]
    ELSE [index |-> idx, ret |-> 0, exc |-> NoException]

(***************************************************************************)
(* ChatHistory                                                             *)
(***************************************************************************)
\* _get_connection: commit when the body ends normally, rollback when it raises.
GetConnectionExitNoRollback(before, working, exc) == working

GetConnectionExit(before, working, exc) ==
    IF exc = NoException THEN working ELSE before

NewSources(sources, key, value) ==
    SelectSeq(sources, LAMBDA s : Meta(s, key) # value)

\* SELECT id, sources FROM messages WHERE sources IS NOT NULL
PurgeSelectRows(msgs) ==
    {[id |-> m.id, sources |-> m.sources] : m \in {x \in msgs : x.sources # <<>>}}

RowChangedAnySources(r, key, value) == r.sources # <<>>

\* if len(new_sources) != len(sources)
RowChanged(r, key, value) == Len(NewSources(r.sources, key, value)) # Len(r.sources)

\* the UPDATE statements of the purge loop, for the fetched rows with id <= upto
PurgeUpdates(msgs, rws, key, value, upto) ==
    {IF \E r \in rws : r.id = m.id /\ r.id <= upto /\ RowChanged(r, key, value)
        THEN [m EXCEPT !.sources =
                 NewSources((CHOOSE r \in rws : r.id = m.id).sources, key, value)]
        ELSE m : m \in msgs}

PurgeCount(rws, key, value) == Cardinality({r \in rws : RowChanged(r, key, value)})

(***************************************************************************)
(* DocumentRegistry                                                        *)
(***************************************************************************)
get_by_file_path(reg, path) ==
    IF \E d \in DocIds : reg[d] # "none" /\ FilePathOf[d] = path
    THEN CHOOSE d \in DocIds : reg[d] # "none" /\ FilePathOf[d] = path
    ELSE "None"

mark_deleted(reg, d) ==
    IF d \in DOMAIN reg /\ reg[d] # "none"
    THEN [registry |-> [reg EXCEPT ![d] = "deleted"], ret |-> 1]
    ELSE [registry |-> reg, ret |-> 0]

(***************************************************************************)
(* AuditLogger                                                             *)
(***************************************************************************)
ForbiddenKeys == {"content", "text", "body", "message", "query_text", "answer"}

\* details: strs maps each key with a string value to the value's length
DetailKeys(details) == DOMAIN details.strs \cup {"chunks_deleted"}

validate_no_contentKeysOnly(details) ==
    DetailKeys(details) \cap ForbiddenKeys = {}

validate_no_content(details) ==
    /\ DetailKeys(details) \cap ForbiddenKeys = {}
    /\ \A k \in DOMAIN details.strs : details.strs[k] <= MaxDetailLen

\* log: None (0) when disabled; ValueError when the details look like content;
\* otherwise one INSERT, committed or rolled back as a whole.
log(aud, enabled, entity_id, details, fault) ==
    IF ~enabled THEN [audit |-> aud, ret |-> 0, exc |-> NoException]
    ELSE IF ~validate_no_content(details)
         THEN [audit |-> aud, ret |-> 0, exc |-> "Audit details must not contain content"]
    ELSE IF fault THEN [audit |-> aud, ret |-> 0, exc |-> "database is locked"]
    ELSE [audit |-> Append(aud, [operation |-> "delete", entity_type |-> "document",
                                 entity_id |-> entity_id, details |-> details]),
          ret |-> Len(aud) + 1, exc |-> NoException]

DeleteDetails(reasonLen, chunks) ==
    [strs |-> [k \in {"reason"} |-> reasonLen], chunks_deleted |-> chunks]

FilePathDetails(path, reasonLen, chunks) ==
    [strs |-> [k \in {"file_path", "reason"} |->
                  IF k = "reason" THEN reasonLen ELSE Len(path)],
     chunks_deleted |-> chunks]

EntityDetails(etype, evalue, reasonLen, chunks) ==
    [strs |-> [k \in {"entity_type", "entity_value", "reason"} |->
                  IF k = "reason" THEN reasonLen
                  ELSE IF k = "entity_type" THEN Len(etype) ELSE Len(evalue)],
     chunks_deleted |-> chunks]

(***************************************************************************)
(* ForgetService                                                           *)
(***************************************************************************)
ForgetResult(doc, etype, evalue) ==
    [success |-> FALSE, error |-> "None", document_id |-> doc,
     entity_type |-> etype, entity_value |-> evalue,
     vectors_deleted |-> 0, chat_references_removed |-> 0,
     registry_updated |-> FALSE, audit_id |-> 0]

\* except Exception as e: result.error = str(e); result.success = False
OnExceptionResetCounts(res, e) ==
    [res EXCEPT !.error = e, !.success = FALSE, !.vectors_deleted = 0,
                !.chat_references_removed = 0, !.registry_updated = FALSE]

OnException(res, e) == [res EXCEPT !.error = e, !.success = FALSE]

\* The statements of forget_document after each collaborator call: what is
\* stored in the result and which call comes next. ret is the call's return
\* value (a bool as 0/1).
ForgetDocumentStepStopOnZero(step, res, ret) ==
    CASE step = "delete_document" ->
           [result |-> IF ret = 1 THEN [res EXCEPT !.vectors_deleted = 1] ELSE res,
            next |-> IF ret = 1 THEN "purge_by_document" ELSE "done"]
      [] step = "purge_by_document" ->
           [result |-> [res EXCEPT !.chat_references_removed = ret],
            next |-> IF ret > 0 THEN "mark_deleted" ELSE "done"]
      [] step = "mark_deleted" ->
           [result |-> IF ret = 1 THEN [res EXCEPT !.registry_updated = TRUE] ELSE res,
            next |-> IF ret = 1 THEN "log_delete" ELSE "done"]
      [] step = "log_delete" ->
           [result |-> [res EXCEPT !.audit_id = ret, !.success = TRUE], next |-> "done"]

ForgetDocumentStep(step, res, ret) ==
    CASE step = "delete_document" ->
           [result |-> IF ret = 1 THEN [res EXCEPT !.vectors_deleted = 1] ELSE res,
            next |-> "purge_by_document"]
      [] step = "purge_by_document" ->
           [result |-> [res EXCEPT !.chat_references_removed = ret],
            next |-> "mark_deleted"]
      [] step = "mark_deleted" ->
           [result |-> IF ret = 1 THEN [res EXCEPT !.registry_updated = TRUE] ELSE res,
            next |-> "log_delete"]
      [] step = "log_delete" ->
           [result |-> [res EXCEPT !.audit_id = ret, !.success = TRUE], next |-> "done"]

\* forget_by_file_path when the registry has no document for the path
ForgetByFilePathStep(step, res, ret) ==
    CASE step = "delete_by_file_path" ->
           [result |-> [res EXCEPT !.vectors_deleted = ret], next |-> "log"]
      [] step = "log" ->
           [result |-> [res EXCEPT !.audit_id = ret, !.success = TRUE], next |-> "done"]

ForgetSenderStep(step, res, ret) ==
    CASE step = "delete_by_sender" ->
           [result |-> [res EXCEPT !.vectors_deleted = ret], next |-> "purge_by_entity"]
      [] step = "purge_by_entity" ->
           [result |-> [res EXCEPT !.chat_references_removed = ret], next |-> "log"]
      [] step = "log" ->
           [result |-> [res EXCEPT !.audit_id = ret, !.success = TRUE], next |-> "done"]

ForgetBySourceTypeStep(step, res, ret) ==
    CASE step = "delete_by_filter" ->
           [result |-> [res EXCEPT !.vectors_deleted = ret], next |-> "log"]
      [] step = "log" ->
           [result |-> [res EXCEPT !.audit_id = ret, !.success = TRUE], next |-> "done"]

Continue(run, step, res, ret) ==
    CASE run = "forget_document" -> ForgetDocumentStep(step, res, ret)
      [] run = "forget_by_file_path" -> ForgetByFilePathStep(step, res, ret)
      [] run = "forget_sender" -> ForgetSenderStep(step, res, ret)
      [] run = "forget_by_source_type" -> ForgetBySourceTypeStep(step, res, ret)

ForgetOps == {"forget_document", "forget_by_file_path", "forget_sender",
              "forget_by_source_type"}

(***************************************************************************)
(* Process state                                                           *)
(***************************************************************************)
IdleReq == [op |-> "none", run |-> "none", doc |-> "None", target |-> "None", reason |-> 0]
IdleResult == ForgetResult("None", "None", "None")

IdleQuery ==
    [question |-> <<>>, conversation_id |-> 0, top_k |-> 0,
     include_sources |-> FALSE, include_explanation |-> FALSE,
     use_query_preprocessing |-> FALSE,
     clean_question |-> <<>>, person_filter |-> "None", source_type |-> "None",
     filters_applied |-> {}, full_question |-> [history |-> <<>>, question |-> <<>>],
     nodes |-> <<>>, context |-> <<>>, answer |-> <<>>, citations |-> <<>>,
     is_grounded |-> FALSE, no_context_found |-> FALSE, explanation |-> <<>>]

IdleFn == [name |-> "none"]

Snapshot == [index |-> index, messages |-> messages, registry |-> registry, audit |-> audit]

\* what a call has done so far: the collaborator calls made (trace), the values
\* they returned (-1: not completed), the call that raised and the text of
\* its exception, whether any fault
\* occurred (swallowed ones included), the stores when the call started (pre)
\* and each store right after the call's last completed step on it (post),
\* the ids of the messages a query wrote (0: none)
NewObs(snap) ==
    [trace |-> <<>>,
     rets |-> [delete |-> -1, purge |-> -1, mark |-> -1, audit |-> -1],
     raisedAt |-> "None", excText |-> "None", faulted |-> FALSE,
     pre |-> snap, post |-> snap, userMsgId |-> 0, asstMsgId |-> 0]

IdleObs == NewObs([index |-> {}, messages |-> {}, registry |-> <<>>, audit |-> <<>>])

RetSlot(step) ==
    CASE step \in {"delete_document", "delete_by_file_path", "delete_by_sender",
                   "delete_by_filter"} -> "delete"
      [] step \in {"purge_by_document", "purge_by_entity"} -> "purge"
      [] step = "mark_deleted" -> "mark"
      [] step \in {"log_delete", "log"} -> "audit"

\* The caller's side of a collaborator call `step` that returned ret or raised
\* exc, the stores being newSnap after it: the try body goes on, or the except
\* clause fills the result.
AfterCall(p, step, ret, exc, isFault, newSnap) ==
    LET o == obs[p]
        tr == IF Len(o.trace) > 0 /\ o.trace[Len(o.trace)] = step THEN o.trace
              ELSE Append(o.trace, step)
    IN
    IF exc = NoException
    THEN LET nxt == Continue(req[p].run, step, result[p], ret) IN
         /\ result' = [result EXCEPT ![p] = nxt.result]
         /\ pc' = [pc EXCEPT ![p] = nxt.next]
         /\ outcome' = [outcome EXCEPT ![p] = IF nxt.next = "done" THEN "returned" ELSE "none"]
         /\ obs' = [obs EXCEPT ![p] =
                       [o EXCEPT !.trace = tr, !.rets[RetSlot(step)] = ret,
                                 !.faulted = o.faulted \/ isFault, !.post = newSnap]]
    ELSE /\ result' = [result EXCEPT ![p] = OnException(result[p], exc)]
         /\ pc' = [pc EXCEPT ![p] = "done"]
         /\ outcome' = [outcome EXCEPT ![p] = "returned"]
         /\ obs' = [obs EXCEPT ![p] =
                       [o EXCEPT !.trace = tr, !.raisedAt = step, !.excText = exc,
                                 !.faulted = TRUE]]

(***************************************************************************)
(* Initial states                                                          *)
(***************************************************************************)
InitMessage(i, src) ==
    [id |-> i, conversation_id |-> 1, role |-> "assistant", content |-> <<"ok">>,
     sources |-> src]

InitMessageTables ==
    {{}} \cup {{InitMessage(1, s)} : s \in InitSources}
         \cup {{InitMessage(1, <<"d1", "d2">>), InitMessage(2, <<"d2">>)}}

\* the engine as constructed with the default provider; one conversation exists
InitEngine ==
    /\ llm_provider = "gpt4all"
    /\ conversations = {1}

InitProcs ==
    /\ pc = [p \in Procs |-> "idle"]
    /\ req = [p \in Procs |-> IdleReq]
    /\ result = [p \in Procs |-> IdleResult]
    /\ rows = [p \in Procs |-> {}]
    /\ outcome = [p \in Procs |-> "none"]
    /\ obs = [p \in Procs |-> IdleObs]
    /\ calls = [p \in Procs |-> 0]
    /\ qry = [p \in Procs |-> IdleQuery]
    /\ fn = IdleFn

Init ==
    /\ collection \in BOOLEAN
    /\ index \in SUBSET Points
    /\ collection = FALSE => index = {}
    /\ messages \in InitMessageTables
    /\ nextMsgId = Cardinality(messages) + 1
    /\ registry \in [DocIds -> {"none", "active", "deleted"}]
    /\ audit = <<>>
    /\ auditEnabled \in BOOLEAN
    /\ InitProcs
    /\ InitEngine

(***************************************************************************)
(* The forget operations, one action per collaborator call                 *)
(***************************************************************************)
StartCall(p, r, res) ==
    /\ pc[p] = "idle"
    /\ calls[p] < MaxCalls
    /\ calls' = [calls EXCEPT ![p] = @ + 1]
    /\ req' = [req EXCEPT ![p] = r]
    /\ result' = [result EXCEPT ![p] = res]
    /\ obs' = [obs EXCEPT ![p] = NewObs(Snapshot)]
    /\ outcome' = [outcome EXCEPT ![p] = "none"]
    /\ UNCHANGED <<fn, llm_provider, conversations, stores, rows, qry>>

forget_document(p, d, reason) ==
    /\ StartCall(p, [op |-> "forget_document", run |-> "forget_document", doc |-> d,
                     target |-> d, reason |-> reason],
                 ForgetResult(d, "None", "None"))
    /\ pc' = [pc EXCEPT ![p] = "delete_document"]

forget_by_file_path(p, path, reason) ==
    /\ StartCall(p, [op |-> "forget_by_file_path", run |-> "forget_by_file_path",
                     doc |-> "None", target |-> path, reason |-> reason],
                 ForgetResult("None", "file_path", path))
    /\ pc' = [pc EXCEPT ![p] = "get_by_file_path"]

forget_sender(p, sender, reason) ==
    /\ StartCall(p, [op |-> "forget_sender", run |-> "forget_sender", doc |-> "None",
                     target |-> sender, reason |-> reason],
                 ForgetResult("None", "sender", sender))
    /\ pc' = [pc EXCEPT ![p] = "delete_by_sender"]

forget_by_source_type(p, st, reason) ==
    /\ StartCall(p, [op |-> "forget_by_source_type", run |-> "forget_by_source_type",
                     doc |-> "None", target |-> st, reason |-> reason],
                 ForgetResult("None", "source_type", st))
    /\ pc' = [pc EXCEPT ![p] = "delete_by_filter"]

\* forget_by_file_path: the registry lookup; a document found hands the call to
\* forget_document(doc.id), which builds its own result.
GetByFilePath(p) ==
    /\ pc[p] = "get_by_file_path"
    /\ \E fault \in BOOLEAN :
         LET doc == get_by_file_path(registry, req[p].target)
             o == obs[p]
         IN
         IF fault
         THEN /\ result' = [result EXCEPT ![p] = OnException(result[p], "database is locked")]
              /\ pc' = [pc EXCEPT ![p] = "done"]
              /\ outcome' = [outcome EXCEPT ![p] = "returned"]
              /\ obs' = [obs EXCEPT ![p] = [o EXCEPT !.trace = Append(o.trace, "get_by_file_path"),
                                                      !.raisedAt = "get_by_file_path",
                                                      !.excText = "database is locked",
                                                      !.faulted = TRUE]]
              /\ UNCHANGED req
         ELSE /\ obs' = [obs EXCEPT ![p] = [o EXCEPT !.trace = Append(o.trace, "get_by_file_path")]]
              /\ UNCHANGED outcome
              /\ IF doc # "None"
                 THEN /\ req' = [req EXCEPT ![p] = [req[p] EXCEPT !.run = "forget_document",
                                                                  !.doc = doc]]
                      /\ result' = [result EXCEPT ![p] = ForgetResult(doc, "None", "None")]
                      /\ pc' = [pc EXCEPT ![p] = "delete_document"]
                 ELSE /\ pc' = [pc EXCEPT ![p] = "delete_by_file_path"]
                      /\ UNCHANGED <<req, result>>
    /\ UNCHANGED <<fn, llm_provider, conversations, stores, rows, calls, qry>>

FilterKey(step) ==
    CASE step = "delete_by_file_path" -> "file_path"
      [] step = "delete_by_sender" -> "sender"
      [] step = "delete_by_filter" -> "source_type"

\* step 1: the index purge
DeleteVectors(p) ==
    /\ pc[p] \in {"delete_document", "delete_by_file_path", "delete_by_sender",
                  "delete_by_filter"}
    /\ \E fault \in VectorFaults :
         LET out == IF pc[p] = "delete_document"
                    THEN delete_document(index, collection, req[p].doc, fault)
                    ELSE delete_by_filter(index, collection, FilterKey(pc[p]),
                                          req[p].target, fault)
         IN
         /\ index' = out.index
         /\ AfterCall(p, pc[p], out.ret, out.exc, fault # "none",
                      [obs[p].post EXCEPT !.index = out.index])
    /\ UNCHANGED <<fn, llm_provider, conversations, collection, messages, nextMsgId, registry, audit, auditEnabled,
                   req, rows, calls, qry>>

PurgeKey(step) == IF step = "purge_by_document" THEN "document_id" ELSE "sender"
PurgeValue(p) == IF pc[p] \in {"purge_by_document", "purge_by_document_update"}
                 THEN req[p].doc ELSE req[p].target
UpdatePc(step) == IF step = "purge_by_document" THEN "purge_by_document_update"
                  ELSE "purge_by_entity_update"
StepOfUpdate(upc) == IF upc = "purge_by_document_update" THEN "purge_by_document"
                     ELSE "purge_by_entity"

\* step 2, first half: the purge's SELECT (no transaction is open after it)
PurgeSelect(p) ==
    /\ pc[p] \in {"purge_by_document", "purge_by_entity"}
    /\ \E fault \in BOOLEAN :
         IF fault
         THEN /\ AfterCall(p, pc[p], 0, "database is locked", TRUE, obs[p].post)
              /\ UNCHANGED rows
         ELSE /\ rows' = [rows EXCEPT ![p] = PurgeSelectRows(messages)]
              /\ pc' = [pc EXCEPT ![p] = UpdatePc(pc[p])]
              /\ obs' = [obs EXCEPT ![p] = [obs[p] EXCEPT !.trace = Append(obs[p].trace, pc[p])]]
              /\ UNCHANGED <<result, outcome>>
    /\ UNCHANGED <<fn, llm_provider, conversations, stores, req, calls, qry>>

\* step 2, second half: the UPDATEs of the purge loop and the connection's
\* commit, or an exception after the rows up to failAt and the rollback
PurgeUpdate(p) ==
    /\ pc[p] \in {"purge_by_document_update", "purge_by_entity_update"}
    /\ \E failAt \in -1..(nextMsgId - 1) :
         LET step == StepOfUpdate(pc[p])
             key == PurgeKey(step)
             exc == IF failAt = -1 THEN NoException ELSE "database is locked"
             working == PurgeUpdates(messages, rows[p], key, PurgeValue(p),
                                     IF failAt = -1 THEN nextMsgId ELSE failAt)
             after == GetConnectionExit(messages, working, exc)
         IN
         /\ messages' = after
         /\ AfterCall(p, step, PurgeCount(rows[p], key, PurgeValue(p)), exc, failAt # -1,
                      [obs[p].post EXCEPT !.messages = after])
    /\ rows' = [rows EXCEPT ![p] = {}]
    /\ UNCHANGED <<fn, llm_provider, conversations, collection, index, nextMsgId, registry, audit, auditEnabled, req, calls, qry>>

\* step 3: the registry mark
MarkDeleted(p) ==
    /\ pc[p] = "mark_deleted"
    /\ \E fault \in BOOLEAN :
         LET out == mark_deleted(registry, req[p].doc)
             after == GetConnectionExit(registry, out.registry,
                                        IF fault THEN "database is locked" ELSE NoException)
         IN
         /\ registry' = after
         /\ AfterCall(p, "mark_deleted", out.ret,
                      IF fault THEN "database is locked" ELSE NoException, fault,
                      [obs[p].post EXCEPT !.registry = after])
    /\ UNCHANGED <<fn, llm_provider, conversations, collection, index, messages, nextMsgId, audit, auditEnabled,
                   req, rows, calls, qry>>

AuditDetails(p) ==
    CASE req[p].run = "forget_document" ->
           DeleteDetails(req[p].reason, result[p].vectors_deleted)
      [] req[p].run = "forget_by_file_path" ->
           FilePathDetails(req[p].target, req[p].reason, result[p].vectors_deleted)
      [] req[p].run = "forget_sender" ->
           EntityDetails("sender", req[p].target, req[p].reason, result[p].vectors_deleted)
      [] req[p].run = "forget_by_source_type" ->
           EntityDetails("source_type", req[p].target, req[p].reason,
                         result[p].vectors_deleted)

\* step 4: the audit append
AuditLog(p) ==
    /\ pc[p] \in {"log_delete", "log"}
    /\ \E fault \in BOOLEAN :
         LET out == log(audit, auditEnabled,
                        IF pc[p] = "log_delete" THEN req[p].doc ELSE "None",
                        AuditDetails(p), fault)
         IN
         /\ fault => auditEnabled /\ validate_no_content(AuditDetails(p))
         /\ audit' = out.audit
         /\ AfterCall(p, pc[p], out.ret, out.exc, out.exc # NoException,
                      [obs[p].post EXCEPT !.audit = out.audit])
    /\ UNCHANGED <<fn, llm_provider, conversations, collection, index, messages, nextMsgId, registry, auditEnabled,
                   req, rows, calls, qry>>

\* the caller takes the result; the process is free for the next call
Return(p) ==
    /\ pc[p] = "done"
    /\ pc' = [pc EXCEPT ![p] = "idle"]
    /\ req' = [req EXCEPT ![p] = IdleReq]
    /\ result' = [result EXCEPT ![p] = IdleResult]
    /\ obs' = [obs EXCEPT ![p] = IdleObs]
    /\ outcome' = [outcome EXCEPT ![p] = "none"]
    /\ qry' = [qry EXCEPT ![p] = IdleQuery]
    /\ UNCHANGED <<fn, llm_provider, conversations, stores, rows, calls>>

ForgetSteps(p) ==
    \/ GetByFilePath(p)
    \/ DeleteVectors(p)
    \/ PurgeSelect(p)
    \/ PurgeUpdate(p)
    \/ MarkDeleted(p)
    \/ AuditLog(p)
    \/ Return(p)

\* one caller, one forget operation at a time
Next ==
    \E p \in SeqProcs :
        \/ \E d \in DocIds, r \in Reasons : forget_document(p, d, r)
        \/ \E f \in FilePaths, r \in Reasons : forget_by_file_path(p, f, r)
        \/ \E s \in Senders, r \in Reasons : forget_sender(p, s, r)
        \/ \E t \in SourceTypes, r \in Reasons : forget_by_source_type(p, t, r)
        \/ ForgetSteps(p)

Spec == Init /\ [][Next]_vars

(***************************************************************************)
(* Properties of the forget operations                                     *)
(***************************************************************************)
Cites(m, d) == \E i \in 1..Len(m.sources) : m.sources[i] = d

Done(p) == pc[p] = "done" /\ req[p].op \in ForgetOps

RanForgetDocument(p) == Done(p) /\ req[p].run = "forget_document"

\* C1: whenever forget_document(d) returns success=True, the index holds no
\* vector of d, no stored message cites d, and d's registry record, if any,
\* is marked deleted.
C1_SuccessMeansForgotten ==
    \A p \in Procs :
        (RanForgetDocument(p) /\ result[p].success) =>
            /\ Matching(index, "document_id", req[p].doc) = {}
            /\ \A m \in messages : ~Cites(m, req[p].doc)
            /\ registry[req[p].doc] \in {"none", "deleted"}

\* C2: forget_document(d) for an id with no vectors (the collection existing),
\* no citations and no registry record, no collaborator failing, returns
\* success=True with vectors_deleted=0 and no error.
C2_NonexistentIdZeroVectors ==
    \A p \in Procs :
        ( /\ Done(p) /\ req[p].op = "forget_document"
          /\ ~obs[p].faulted
          /\ collection
          /\ Matching(obs[p].pre.index, "document_id", req[p].doc) = {}
          /\ \A m \in obs[p].pre.messages : ~Cites(m, req[p].doc)
          /\ obs[p].pre.registry[req[p].doc] = "none" )
        => /\ result[p].success
           /\ result[p].vectors_deleted = 0
           /\ result[p].error = "None"

\* the counts a result must hold, from the values the completed steps returned
ExpectedVectors(p) ==
    IF obs[p].rets.delete = -1 THEN 0
    ELSE IF req[p].run = "forget_document" THEN (IF obs[p].rets.delete = 1 THEN 1 ELSE 0)
    ELSE obs[p].rets.delete

ExpectedChatRefs(p) == IF obs[p].rets.purge = -1 THEN 0 ELSE obs[p].rets.purge

ExpectedRegistryUpdated(p) == obs[p].rets.mark = 1

\* C3: when a collaborator call of a forget operation raises, the operation
\* still returns (the exception does not reach the caller) a result with
\* success=False, error = the exception's text, and the counts of the steps
\* completed before the failure.
C3_FailureIsRecorded ==
    \A p \in Procs :
        (Done(p) /\ obs[p].raisedAt # "None") =>
            /\ outcome[p] = "returned"
            /\ result[p].success = FALSE
            /\ result[p].error = obs[p].excText
            /\ result[p].error # "None"
            /\ result[p].vectors_deleted = ExpectedVectors(p)
            /\ result[p].chat_references_removed = ExpectedChatRefs(p)
            /\ result[p].registry_updated = ExpectedRegistryUpdated(p)
            /\ result[p].audit_id = 0

C3_Witness ==
    \E p \in Procs :
        /\ Done(p) /\ req[p].op = "forget_document"
        /\ obs[p].raisedAt = "mark_deleted"
        /\ result[p].vectors_deleted = 1
        /\ result[p].chat_references_removed > 0

StepNo(step) ==
    CASE step = "delete_document" -> 1
      [] step = "purge_by_document" -> 2
      [] step = "mark_deleted" -> 3
      [] step = "log_delete" -> 4
      [] OTHER -> 0

\* C4: when step k of forget_document raises, the stores of steps 1..k-1 keep
\* what those steps did to them, and the stores of steps k..4 are as they were
\* when the call started; no audit entry is appended.
C4_NoRollbackNoLaterEffect ==
    \A p \in Procs :
        (RanForgetDocument(p) /\ StepNo(obs[p].raisedAt) > 0) =>
            LET k == StepNo(obs[p].raisedAt) IN
            /\ index = (IF k > 1 THEN obs[p].post.index ELSE obs[p].pre.index)
            /\ messages = (IF k > 2 THEN obs[p].post.messages ELSE obs[p].pre.messages)
            /\ registry = (IF k > 3 THEN obs[p].post.registry ELSE obs[p].pre.registry)
            /\ audit = obs[p].pre.audit

C4_Witness ==
    \E p \in Procs :
        /\ RanForgetDocument(p)
        /\ obs[p].raisedAt = "mark_deleted"
        /\ index # obs[p].pre.index
        /\ messages # obs[p].pre.messages
        /\ registry = obs[p].pre.registry
        /\ registry[req[p].doc] = "active"

StoreKind(step) ==
    CASE step \in {"delete_document", "delete_by_file_path", "delete_by_sender",
                   "delete_by_filter"} -> "index"
      [] step \in {"purge_by_document", "purge_by_entity"} -> "history"
      [] step = "mark_deleted" -> "registry"
      [] step \in {"log_delete", "log"} -> "audit"
      [] OTHER -> "lookup"

StepKinds(trace) ==
    LET writes == SelectSeq(trace, LAMBDA st : StoreKind(st) # "lookup")
    IN [i \in 1..Len(writes) |-> StoreKind(writes[i])]

\* C5: every forget operation that reports success went through index purge,
\* history scrub, registry mark and audit append, in that order.
C5_SameStepsForEveryTarget ==
    \A p \in Procs :
        (Done(p) /\ result[p].success) =>
            StepKinds(obs[p].trace) = <<"index", "history", "registry", "audit">>

\* C6: in forget_document a step reporting zero effect does not stop the
\* sequence: unless a step raises, all four steps are made, in order, and the
\* result is success=True.
C6_ZeroEffectDoesNotStop ==
    \A p \in Procs :
        (RanForgetDocument(p) /\ obs[p].raisedAt = "None") =>
            /\ SelectSeq(obs[p].trace, LAMBDA st : StepNo(st) > 0)
                 = <<"delete_document", "purge_by_document", "mark_deleted", "log_delete">>
            /\ obs[p].rets.delete # -1 /\ obs[p].rets.purge # -1
            /\ obs[p].rets.mark # -1 /\ obs[p].rets.audit # -1
            /\ result[p].success

C6_Witness ==
    \E p \in Procs :
        /\ Done(p) /\ req[p].op = "forget_document"
        /\ obs[p].rets.delete = 0 /\ obs[p].rets.purge = 0 /\ obs[p].rets.mark = 0
        /\ result[p].success

(***************************************************************************)
(* Two callers, each running forget_document on its own document           *)
(***************************************************************************)
ConcDocOf == [p \in Procs |-> IF p = 1 THEN "d1" ELSE "d2"]

InitConc ==
    /\ collection = TRUE
    /\ index \in SUBSET Points
    /\ messages \in InitMessageTables
    /\ nextMsgId = Cardinality(messages) + 1
    /\ registry \in [DocIds -> {"none", "active"}]
    /\ audit = <<>>
    /\ auditEnabled = TRUE
    /\ InitProcs
    /\ InitEngine

\* the steps of the two calls interleave at every collaborator call, and
\* inside the history purge between its SELECT and its first UPDATE
NextConc ==
    \E p \in Procs :
        \/ \E r \in Reasons : forget_document(p, ConcDocOf[p], r)
        \/ DeleteVectors(p)
        \/ PurgeSelect(p)
        \/ PurgeUpdate(p)
        \/ MarkDeleted(p)
        \/ AuditLog(p)
        \/ Return(p)

SpecConc == InitConc /\ [][NextConc]_vars

\* index, history and registry after forget_document(d) ran alone on snap,
\* every collaborator call succeeding
ForgetAlone(snap, d) ==
    [snap EXCEPT
       !.index = delete_document(snap.index, TRUE, d, "none").index,
       !.messages = PurgeUpdates(snap.messages, PurgeSelectRows(snap.messages),
                                 "document_id", d, Cardinality(snap.messages) + 1),
       !.registry = mark_deleted(snap.registry, d).registry]

\* C7: two forget_document calls on distinct ids, interleaved in any way and
\* no collaborator failing, leave index, history and registry as the two
\* calls run one after the other leave them; a message citing both documents
\* ends citing neither.
C7_ConcurrentEqualsSequential ==
    ( /\ \A p \in Procs : RanForgetDocument(p) /\ ~obs[p].faulted
      /\ req[1].doc # req[2].doc )
    => LET seq == ForgetAlone(ForgetAlone(obs[1].pre, req[1].doc), req[2].doc) IN
       /\ index = seq.index
       /\ messages = seq.messages
       /\ registry = seq.registry
       /\ \A m \in messages : ~Cites(m, "d1") /\ ~Cites(m, "d2")

(***************************************************************************)
(* Query fixtures. A text (question, answer, message content) is a         *)
(* sequence of words; the fixture words hold no date expression, no second *)
(* capitalised word after a name and none of the verbs of the other        *)
(* person patterns.                                                        *)
(***************************************************************************)
ConvIds == {1}
Names == {"Ewa", "Jan"}
Questions == {<<"vacation", "plans">>,
              <<"messages", "from", "Ewa", "about", "vacation">>,
              <<"with", "Jan", "on", "WhatsApp">>}

LongText == "the trip to the mountains is planned for the second week of may and the tickets were bought in march"
Answers == {<<"I", "Could not find", "this", "information">>,
            <<"the", "trip", "is", "in", "may", "[Source:", "email", "]">>,
            <<"there", "is", "no information", "about", "this", "[Source:", "email", "]">>,
            <<LongText>>}

\* str.lower() on the fixture words
Lower(w) ==
    CASE w = "Could not find" -> "could not find"
      [] w = "[Source:" -> "[source:"
      [] w = "WhatsApp" -> "whatsapp"
      [] w = "I" -> "i"
      [] w = "Ewa" -> "ewa"
      [] w = "Jan" -> "jan"
      [] OTHER -> w

RECURSIVE TextLen(_)
\* len(text): the words joined by single spaces
TextLen(t) ==
    IF t = <<>> THEN 0
    ELSE Len(Head(t)) + (IF Len(t) > 1 THEN 1 ELSE 0) + TextLen(Tail(t))

Contains(t, phrase) == \E i \in 1..Len(t) : Lower(t[i]) = phrase

\* the sequence t without its n words from position i on
RemoveAt(t, i, n) == SubSeq(t, 1, i - 1) \o SubSeq(t, i + n, Len(t))

\* similarity scores of the search service, in thousandths
SimLevels == {800, 900}

\* payload of the indexed documents read by the priority rules
IsPinnedOf == [d \in DocIds |-> d = "d1"]
IsApprovedOf == [d \in DocIds |-> FALSE]
AgeDaysOf == [d \in DocIds |-> IF d = "d1" THEN 0 ELSE 400]

(***************************************************************************)
(* QueryPreprocessor                                                       *)
(***************************************************************************)
PersonKeywords == {"from", "by", "with"}
PersonStopWords == {"the", "a", "an", "to", "do", "co", "jak", "i"}

SOURCE_PATTERNS ==
    << [words |-> {"email", "e-mail", "mail", "maile", "emaile"}, type |-> "email"],
       [words |-> {"messenger", "facebook", "fb"}, type |-> "messenger"],
       [words |-> {"whatsapp", "wa"}, type |-> "whatsapp"],
       [words |-> {"notatka", "notatki", "note", "notes"}, type |-> "text"] >>

LeadingPrepositions == {"from", "by", "with", "in", "od", "z", "w", "o"}

\* (?:from|by|with)\s+([A-Z][a-z]+): the leftmost match, case-sensitive
PersonMatches(q) ==
    {i \in 1..(Len(q) - 1) : q[i] \in PersonKeywords /\ q[i + 1] \in Names}

extract_person(q) ==
    IF PersonMatches(q) = {} THEN [person |-> "None", query |-> q]
    ELSE LET i == CHOOSE k \in PersonMatches(q) : \A j \in PersonMatches(q) : k <= j IN
         IF Lower(q[i + 1]) \in PersonStopWords THEN [person |-> "None", query |-> q]
         ELSE [person |-> q[i + 1], query |-> RemoveAt(q, i, 2)]

SourceMatches(q, n) == {i \in 1..Len(q) : Lower(q[i]) \in SOURCE_PATTERNS[n].words}

\* the first pattern of the list that matches anywhere, its leftmost match removed
extract_source(q) ==
    LET hits == {n \in 1..Len(SOURCE_PATTERNS) : SourceMatches(q, n) # {}} IN
    IF hits = {} THEN [source |-> "None", query |-> q]
    ELSE LET n == CHOOSE k \in hits : \A j \in hits : k <= j
             i == CHOOSE k \in SourceMatches(q, n) : \A j \in SourceMatches(q, n) : k <= j
         IN [source |-> SOURCE_PATTERNS[n].type, query |-> RemoveAt(q, i, 1)]

\* the month names the queries use, and the tokens of the numeric date forms
\* with the year and month that int() reads from them
MONTHS == [w \in {"december", "may"} |-> IF w = "december" THEN 12 ELSE 5]
YearWords == [w \in {"2021", "9999", "0000"} |-> IF w = "2021" THEN 2021 ELSE IF w = "9999" THEN 9999 ELSE 0]
YearMonthWords ==
    [w \in {"2021-12", "2021-13", "0000-12", "9999-12"} |->
        CASE w = "2021-12" -> [year |-> 2021, month |-> 12]
          [] w = "2021-13" -> [year |-> 2021, month |-> 13]
          [] w = "0000-12" -> [year |-> 0, month |-> 12]
          [] w = "9999-12" -> [year |-> 9999, month |-> 12]]
MonthYearNumWords ==
    [w \in {"5/2021", "12/9999", "1/0000"} |->
        CASE w = "5/2021" -> [year |-> 2021, month |-> 5]
          [] w = "12/9999" -> [year |-> 9999, month |-> 12]
          [] w = "1/0000" -> [year |-> 0, month |-> 1]]
RelativePeriods == {"week", "month", "year"}

DATE_PATTERNS ==
    << [type |-> "month_year", lead |-> {"in", "w"}, len |-> 3],
       [type |-> "month_year", lead |-> {"from", "od"}, len |-> 3],
       [type |-> "month_year", lead |-> {"during", "podczas"}, len |-> 3],
       [type |-> "relative", lead |-> {"last", "poprzedni"}, len |-> 2],
       [type |-> "relative_this", lead |-> {"this", "tym"}, len |-> 2],
       [type |-> "year_month", lead |-> {}, len |-> 1],
       [type |-> "month_year_num", lead |-> {}, len |-> 1] >>

MINYEAR == 1
MAXYEAR == 9999
NoRange == [kind |-> "none"]
ValueError == [kind |-> "ValueError"]

\* datetime(year, month, 1) and the first day of the next month: ValueError
\* when a year is outside MINYEAR..MAXYEAR
month_range(year, month) ==
    IF year < MINYEAR \/ year > MAXYEAR THEN ValueError
    ELSE IF month = 12 /\ year + 1 > MAXYEAR THEN ValueError
    ELSE [kind |-> "month", year |-> year, month |-> month]

\* the positions where the n-th date pattern matches
DateMatches(q, n) ==
    LET pat == DATE_PATTERNS[n] IN
    {i \in 1..(Len(q) - pat.len + 1) :
        CASE pat.type = "month_year" ->
                Lower(q[i]) \in pat.lead /\ q[i + 2] \in DOMAIN YearWords
          [] pat.type \in {"relative", "relative_this"} ->
                Lower(q[i]) \in pat.lead /\ Lower(q[i + 1]) \in RelativePeriods
          [] pat.type = "year_month" -> q[i] \in DOMAIN YearMonthWords
          [] pat.type = "month_year_num" -> q[i] \in DOMAIN MonthYearNumWords}

parse_date_match(q, i, pattern_type) ==
    CASE pattern_type = "month_year" ->
            IF Lower(q[i + 1]) \in DOMAIN MONTHS
            THEN month_range(YearWords[q[i + 2]], MONTHS[Lower(q[i + 1])]) ELSE NoRange
      [] pattern_type = "year_month" ->
            LET ym == YearMonthWords[q[i]] IN
            IF 1 <= ym.month /\ ym.month <= 12 THEN month_range(ym.year, ym.month) ELSE NoRange
      [] pattern_type = "month_year_num" ->
            LET ym == MonthYearNumWords[q[i]] IN
            IF 1 <= ym.month /\ ym.month <= 12 THEN month_range(ym.year, ym.month) ELSE NoRange
      [] pattern_type \in {"relative", "relative_this"} ->
            [kind |-> pattern_type, period |-> Lower(q[i + 1])]

RECURSIVE extract_date_from(_, _)
\* the loop over DATE_PATTERNS from the n-th pattern on: the leftmost match
\* of the first pattern whose match parses to a range is removed
extract_date_from(q, n) ==
    IF n > Len(DATE_PATTERNS) THEN [date_range |-> NoRange, query |-> q]
    ELSE IF DateMatches(q, n) = {} THEN extract_date_from(q, n + 1)
    ELSE LET i == CHOOSE k \in DateMatches(q, n) : \A j \in DateMatches(q, n) : k <= j
             range == parse_date_match(q, i, DATE_PATTERNS[n].type)
         IN IF range = NoRange THEN extract_date_from(q, n + 1)
            ELSE [date_range |-> range,
                  query |-> IF range = ValueError THEN q ELSE RemoveAt(q, i, DATE_PATTERNS[n].len)]

extract_date_range(q) == extract_date_from(q, 1)

clean_query(q) ==
    IF q # <<>> /\ Len(q) > 1 /\ Lower(q[1]) \in LeadingPrepositions THEN Tail(q) ELSE q

\* raised tells that the call ended with the ValueError of the date step
preprocess(q) ==
    LET pe == extract_person(q)
        da == extract_date_range(pe.query)
        so == extract_source(da.query)
    IN IF da.date_range = ValueError
       THEN [raised |-> TRUE, person_filter |-> "None", date_range |-> NoRange,
             source_filter |-> "None", clean_query |-> q, extracted_filters |-> {}]
       ELSE [raised |-> FALSE,
             person_filter |-> pe.person,
             date_range |-> da.date_range,
             source_filter |-> so.source,
             clean_query |-> clean_query(so.query),
             extracted_filters |->
                 (IF pe.person # "None" THEN {<<"person", pe.person>>} ELSE {})
                 \cup (IF da.date_range # NoRange THEN {<<"date_range", da.date_range>>} ELSE {})
                 \cup (IF so.source # "None" THEN {<<"source", so.source>>} ELSE {})]

(***************************************************************************)
(* Priority rules. Scores are exact rationals kept as integers:            *)
(* priority_score * 1000 * MaxAgeDays and weighted_score * 10000 *         *)
(* MaxAgeDays.                                                             *)
(***************************************************************************)
MaxAgeDays == 365
SimilarityWeight == 7     \* tenths
PriorityWeight == 3       \* tenths

CATEGORY_WEIGHTS(category) ==
    CASE category = "profile" -> 120
      [] category = "decision" -> 100
      [] category \in {"note", "text"} -> 70
      [] category = "email" -> 50
      [] category \in {"contact", "contacts"} -> 40
      [] category \in {"whatsapp", "messenger", "conversation"} -> 30
      [] category = "interests" -> 25
      [] category = "location" -> 20
      [] category = "search_history" -> 10
      [] OTHER -> 70

ApprovalWeight(is_pinned, is_approved) ==
    IF is_pinned THEN 50 ELSE IF is_approved THEN 30 ELSE 0

\* 0.4 * type/100 + 0.3 * approval/50 + 0.3 * max(0, 1 - age/max_age)
calculate_priority(source_type, age_days, is_pinned, is_approved) ==
    LET left == MaxAgeDays - age_days IN
    4 * CATEGORY_WEIGHTS(source_type) * MaxAgeDays
    + 6 * ApprovalWeight(is_pinned, is_approved) * MaxAgeDays
    + 300 * (IF left > 0 THEN left ELSE 0)

extract_priority_from_metadata(d) ==
    calculate_priority(SourceTypeOf[d], AgeDaysOf[d], IsPinnedOf[d], IsApprovedOf[d])

\* the settings' weights sum to 1: no normalisation
calculate_weighted_score(similarity, priority) ==
    SimilarityWeight * similarity * MaxAgeDays + PriorityWeight * priority

WeightedScoreOf(node) ==
    calculate_weighted_score(node.score, extract_priority_from_metadata(node.document_id))

(***************************************************************************)
(* Citations                                                               *)
(***************************************************************************)
extract_citations(nodes) == [i \in 1..Len(nodes) |-> nodes[i].document_id]

NoInfoPhrases == {"could not find", "no information", "not found in",
                  "don't have information", "no relevant"}

validate_grounding(answer, citations) ==
    LET has_citations == Contains(answer, "[source:") \/ Contains(answer, "[source ") IN
    IF \E ph \in NoInfoPhrases : Contains(answer, ph) THEN TRUE
    ELSE IF citations # <<>> /\ has_citations THEN TRUE
    ELSE IF citations = <<>> /\ TextLen(answer) < 100 THEN TRUE
    ELSE has_citations \/ citations = <<>>

(***************************************************************************)
(* Retrieval: the search service returns the points that pass the filters, *)
(* best similarity first, at most top_k of them.                           *)
(***************************************************************************)
DefaultTopK == 5
RecentLimit == 4

PassesFilters(d, person_filter, source_type) ==
    /\ person_filter # "None" => SenderOf[d] = person_filter
    /\ source_type # "None" => SourceTypeOf[d] = source_type

\* every listing of the points pts by non-increasing similarity
SimilarityOrders(pts, sim) ==
    {o \in [1..Cardinality(pts) -> pts] :
        /\ \A i, j \in DOMAIN o : i # j => o[i] # o[j]
        /\ \A i, j \in DOMAIN o : i < j => sim[o[i].document_id] >= sim[o[j].document_id]}

TakeFirst(t, n) == SubSeq(t, 1, IF Len(t) < n THEN Len(t) ELSE n)

RetrievedNodes(order, sim, top_k) ==
    TakeFirst([i \in DOMAIN order |->
                  [document_id |-> order[i].document_id, chunk |-> order[i].chunk,
                   score |-> sim[order[i].document_id]]], top_k)

\* rank_documents: list.sort(key=weighted_score, reverse=True), a stable sort:
\* each document goes behind the documents already placed that score at least
\* as much
RECURSIVE InsertRanked(_, _)
InsertRanked(ranked, doc) ==
    IF ranked = <<>> THEN <<doc>>
    ELSE IF WeightedScoreOf(Head(ranked)) >= WeightedScoreOf(doc)
         THEN <<Head(ranked)>> \o InsertRanked(Tail(ranked), doc)
         ELSE <<doc>> \o ranked

RECURSIVE rank_documents(_)
rank_documents(documents) ==
    IF documents = <<>> THEN <<>>
    ELSE InsertRanked(rank_documents(SubSeq(documents, 1, Len(documents) - 1)),
                      documents[Len(documents)])

\* query() re-ranking the retrieved nodes by weighted score
GenerationContextRanked(nodes) == rank_documents(nodes)

\* RetrieverQueryEngine hands the retrieved nodes to the synthesizer as they are
GenerationContext(nodes) == nodes

\* get_recent_messages: the newest `limit` messages of the conversation, oldest first
RECURSIVE ById(_)
ById(ms) ==
    IF ms = {} THEN <<>>
    ELSE LET m == CHOOSE x \in ms : \A y \in ms : x.id <= y.id
         IN <<m>> \o ById(ms \ {m})

get_recent_messages(msgs, conversation_id, limit) ==
    LET all == ById({m \in msgs : m.conversation_id = conversation_id})
        from == IF Len(all) > limit THEN Len(all) - limit + 1 ELSE 1
    IN [i \in 1..(Len(all) - from + 1) |->
           [role |-> all[from + i - 1].role, content |-> all[from + i - 1].content]]

build_question_with_context(msgs, question, conversation_id) ==
    IF conversation_id = 0
    THEN [history |-> <<>>, question |-> question]
    ELSE [history |-> get_recent_messages(msgs, conversation_id, RecentLimit),
          question |-> question]

(***************************************************************************)
(* RAGEngine.query, one action per step                                    *)
(***************************************************************************)
QueryReq == [op |-> "query", run |-> "query", doc |-> "None", target |-> "None",
             reason |-> 0]

WantsExplanation(q) == q.include_explanation /\ q.nodes # <<>>

\* query() with the explanation built before the messages are saved
QueryNextStepExplainFirst(step, q) ==
    CASE step = "start" -> IF q.use_query_preprocessing THEN "preprocess"
                           ELSE "build_context"
      [] step = "preprocess" -> "build_context"
      [] step = "build_context" -> "retrieve"
      [] step = "retrieve" -> "generate"
      [] step = "generate" -> "validate"
      [] step = "validate" -> IF WantsExplanation(q) THEN "explain"
                              ELSE IF q.conversation_id # 0 THEN "add_user" ELSE "return"
      [] step = "explain" -> IF q.conversation_id # 0 THEN "add_user" ELSE "return"
      [] step = "add_user" -> "add_assistant"
      [] step = "add_assistant" -> "return"

\* the statement of query() that follows each step
QueryNextStep(step, q) ==
    CASE step = "start" -> IF q.use_query_preprocessing THEN "preprocess"
                           ELSE "build_context"
      [] step = "preprocess" -> "build_context"
      [] step = "build_context" -> "retrieve"
      [] step = "retrieve" -> "generate"
      [] step = "generate" -> "validate"
      [] step = "validate" -> IF q.conversation_id # 0 THEN "add_user"
                              ELSE IF WantsExplanation(q) THEN "explain" ELSE "return"
      [] step = "add_user" -> "add_assistant"
      [] step = "add_assistant" -> IF WantsExplanation(q) THEN "explain" ELSE "return"
      [] step = "explain" -> "return"

\* the step completed: its locals are stored and the next statement is reached
QStep(p, step, newq) ==
    /\ qry' = [qry EXCEPT ![p] = newq]
    /\ pc' = [pc EXCEPT ![p] = QueryNextStep(step, newq)]
    /\ obs' = [obs EXCEPT ![p].trace = Append(@, step)]
    /\ UNCHANGED outcome

\* the step raised: query() has no handler, the exception reaches the caller
QRaise(p, step, exc) ==
    /\ pc' = [pc EXCEPT ![p] = "done"]
    /\ outcome' = [outcome EXCEPT ![p] = "raised"]
    /\ obs' = [obs EXCEPT ![p] = [obs[p] EXCEPT !.trace = Append(@, step),
                                               !.raisedAt = step, !.excText = exc,
                                               !.faulted = TRUE]]
    /\ UNCHANGED qry

query(p, question, conversation_id, top_k, include_sources, include_explanation, person_filter, source_type, use_query_preprocessing) ==
    LET q == [IdleQuery EXCEPT
                !.question = question, !.conversation_id = conversation_id,
                !.top_k = IF top_k = 0 THEN DefaultTopK ELSE top_k,
                !.include_sources = include_sources,
                !.include_explanation = include_explanation,
                !.person_filter = person_filter, !.source_type = source_type,
                !.use_query_preprocessing = use_query_preprocessing,
                !.clean_question = question]
    IN
    /\ pc[p] = "idle"
    /\ calls[p] < MaxCalls
    /\ calls' = [calls EXCEPT ![p] = @ + 1]
    /\ req' = [req EXCEPT ![p] = QueryReq]
    /\ qry' = [qry EXCEPT ![p] = q]
    /\ pc' = [pc EXCEPT ![p] = QueryNextStep("start", q)]
    /\ obs' = [obs EXCEPT ![p] = NewObs(Snapshot)]
    /\ outcome' = [outcome EXCEPT ![p] = "none"]
    /\ UNCHANGED <<fn, llm_provider, conversations, stores, result, rows>>

QPreprocess(p) ==
    /\ pc[p] = "preprocess"
    /\ LET q == qry[p]
           pre == preprocess(q.question)
       IN IF pre.raised THEN QRaise(p, "preprocess", "ValueError")
          ELSE QStep(p, "preprocess",
                [q EXCEPT
                   !.person_filter = IF q.person_filter = "None" THEN pre.person_filter
                                     ELSE q.person_filter,
                   !.source_type = IF q.source_type = "None" THEN pre.source_filter
                                   ELSE q.source_type,
                   !.clean_question = pre.clean_query,
                   !.filters_applied = pre.extracted_filters])
    /\ UNCHANGED <<fn, llm_provider, conversations, stores, req, result, rows, calls>>

QBuildContext(p) ==
    /\ pc[p] = "build_context"
    /\ \E fault \in BOOLEAN :
         LET q == qry[p] IN
         IF fault /\ q.conversation_id # 0
         THEN QRaise(p, "build_context", "database is locked")
         ELSE QStep(p, "build_context",
                    [q EXCEPT !.full_question =
                        build_question_with_context(messages, q.question,
                                                    q.conversation_id)])
    /\ UNCHANGED <<fn, llm_provider, conversations, stores, req, result, rows, calls>>

\* query_engine.query, first half: the retriever asks the search service
QRetrieve(p) ==
    /\ pc[p] = "retrieve"
    /\ \E fault \in BOOLEAN, sim \in [DocIds -> SimLevels] :
         LET q == qry[p]
             hits == {v \in index : PassesFilters(v.document_id, q.person_filter,
                                                  q.source_type)}
         IN
         IF fault \/ ~collection
         THEN QRaise(p, "retrieve", "qdrant unreachable")
         ELSE \E order \in SimilarityOrders(hits, sim) :
                QStep(p, "retrieve",
                      [q EXCEPT !.nodes = RetrievedNodes(order, sim, q.top_k)])
    /\ UNCHANGED <<fn, llm_provider, conversations, stores, req, result, rows, calls>>

\* query_engine.query, second half: the synthesizer asks the language model
QGenerate(p) ==
    /\ pc[p] = "generate"
    /\ \E fault \in BOOLEAN, answer \in Answers :
         LET q == qry[p] IN
         IF fault
         THEN QRaise(p, "generate", "llm unreachable")
         ELSE QStep(p, "generate",
                    [q EXCEPT !.context = GenerationContext(q.nodes),
                              !.answer = answer])
    /\ UNCHANGED <<fn, llm_provider, conversations, stores, req, result, rows, calls>>

NoContextFoundAnyPhrase(answer, citations) ==
    citations = <<>> \/ \E ph \in NoInfoPhrases : Contains(answer, ph)

\* not citations or "could not find" in answer.lower()
NoContextFound(answer, citations) ==
    citations = <<>> \/ Contains(answer, "could not find")

QValidate(p) ==
    /\ pc[p] = "validate"
    /\ LET q == qry[p]
           citations == IF q.include_sources /\ q.nodes # <<>>
                        THEN extract_citations(q.nodes) ELSE <<>>
       IN QStep(p, "validate",
                [q EXCEPT !.citations = citations,
                          !.is_grounded = validate_grounding(q.answer, citations),
                          !.no_context_found = NoContextFound(q.answer, citations)])
    /\ UNCHANGED <<fn, llm_provider, conversations, stores, req, result, rows, calls>>

\* add_message: one INSERT in a transaction of its own
add_message(msgs, id, conversation_id, role, content, sources) ==
    msgs \cup {[id |-> id, conversation_id |-> conversation_id, role |-> role,
                content |-> content, sources |-> sources]}

QAddMessage(p, step, role, content, sources) ==
    /\ pc[p] = step
    /\ \E fault \in BOOLEAN :
         LET exc == IF fault THEN "database is locked" ELSE NoException
             after == GetConnectionExit(
                          messages,
                          add_message(messages, nextMsgId, qry[p].conversation_id,
                                      role, content, sources),
                          exc)
         IN
         /\ messages' = after
         /\ IF fault
            THEN /\ QRaise(p, step, exc)
                 /\ UNCHANGED nextMsgId
            ELSE /\ nextMsgId' = nextMsgId + 1
                 /\ qry' = qry
                 /\ pc' = [pc EXCEPT ![p] = QueryNextStep(step, qry[p])]
                 /\ obs' = [obs EXCEPT ![p] =
                              [obs[p] EXCEPT
                                 !.trace = Append(@, step),
                                 !.userMsgId = IF role = "user" THEN nextMsgId ELSE @,
                                 !.asstMsgId = IF role = "assistant" THEN nextMsgId ELSE @]]
                 /\ UNCHANGED outcome
    /\ UNCHANGED <<fn, llm_provider, conversations, collection, index, registry, audit,
                   auditEnabled, req, result, rows, calls>>

QAddUser(p) == QAddMessage(p, "add_user", "user", qry[p].question, <<>>)

QAddAssistant(p) ==
    QAddMessage(p, "add_assistant", "assistant", qry[p].answer, qry[p].citations)

create_retrieval_explanationWithPriority(node, rank) ==
    [rank |-> rank, document_id |-> node.document_id, similarity_score |-> node.score,
     priority_score |-> extract_priority_from_metadata(node.document_id),
     final_score |-> WeightedScoreOf(node),
     type_contribution |-> CATEGORY_WEIGHTS(SourceTypeOf[node.document_id]),
     recency_contribution |-> MaxAgeDays - AgeDaysOf[node.document_id],
     approval_contribution |->
         ApprovalWeight(IsPinnedOf[node.document_id], IsApprovedOf[node.document_id])]

\* called without priority_info: every priority.get(...) gives its default
create_retrieval_explanation(node, rank) ==
    [rank |-> rank, document_id |-> node.document_id, similarity_score |-> node.score,
     priority_score |-> 0, final_score |-> node.score,
     type_contribution |-> 0, recency_contribution |-> 0, approval_contribution |-> 0]

build_explanation(q) ==
    [retrieval_mode |-> "similarity", retrieval_top_k |-> q.top_k,
     documents_retrieved |->
        [i \in 1..Len(q.nodes) |-> create_retrieval_explanation(q.nodes[i], i)]]

QExplain(p) ==
    /\ pc[p] = "explain"
    /\ QStep(p, "explain", [qry[p] EXCEPT !.explanation = <<build_explanation(qry[p])>>])
    /\ UNCHANGED <<fn, llm_provider, conversations, stores, req, result, rows, calls>>

QReturn(p) ==
    /\ pc[p] = "return"
    /\ pc' = [pc EXCEPT ![p] = "done"]
    /\ outcome' = [outcome EXCEPT ![p] = "returned"]
    /\ obs' = [obs EXCEPT ![p].trace = Append(@, "return")]
    /\ UNCHANGED <<fn, llm_provider, conversations, stores, req, result, rows, calls, qry>>

QuerySteps(p) ==
    \/ QPreprocess(p)
    \/ QBuildContext(p)
    \/ QRetrieve(p)
    \/ QGenerate(p)
    \/ QValidate(p)
    \/ QAddUser(p)
    \/ QAddAssistant(p)
    \/ QExplain(p)
    \/ QReturn(p)
    \/ Return(p)

InitQuery ==
    /\ collection \in BOOLEAN
    /\ index \in SUBSET Points
    /\ collection = FALSE => index = {}
    /\ messages \in {{}, {InitMessage(1, <<"d1", "d2">>), InitMessage(2, <<"d2">>)}}
    /\ nextMsgId = Cardinality(messages) + 1
    /\ registry = [d \in DocIds |-> "active"]
    /\ audit = <<>>
    /\ auditEnabled = TRUE
    /\ InitProcs
    /\ InitEngine

\* one caller, one query at a time
NextQuery ==
    \E p \in SeqProcs :
        \/ \E question \in Questions, conversation_id \in {0} \cup ConvIds,
              top_k \in {0, 1}, include_sources \in BOOLEAN,
              include_explanation \in BOOLEAN, person_filter \in {"None", "Jan"},
              source_type \in {"None"}, use_query_preprocessing \in BOOLEAN :
                query(p, question, conversation_id, top_k, include_sources,
                      include_explanation, person_filter, source_type,
                      use_query_preprocessing)
        \/ QuerySteps(p)

SpecQuery == InitQuery /\ [][NextQuery]_vars

(***************************************************************************)
(* Properties of query()                                                   *)
(***************************************************************************)
QueryDone(p) == pc[p] = "done" /\ req[p].op = "query"

\* the messages written since the call started
NewMessages(p, role) == {m \in messages \ obs[p].pre.messages : m.role = role}

\* C8: when a query call with a conversation id ends, by returning or by
\* raising, the history holds the call's user message if and only if it holds
\* the call's assistant message; when retrieval or generation raised, it
\* holds neither.
C8_PairWrittenTogether ==
    \A p \in Procs :
        (QueryDone(p) /\ qry[p].conversation_id # 0) =>
            /\ (NewMessages(p, "user") # {}) <=> (NewMessages(p, "assistant") # {})
            /\ obs[p].raisedAt \in {"retrieve", "generate"} =>
                  messages = obs[p].pre.messages

\* position of each step in the order of the code and in the claimed order
CodeRank(step) ==
    CASE step = "preprocess" -> 1
      [] step = "build_context" -> 2
      [] step = "retrieve" -> 3
      [] step = "generate" -> 4
      [] step = "validate" -> 5
      [] step = "add_user" -> 6
      [] step = "add_assistant" -> 7
      [] step = "explain" -> 8
      [] step = "return" -> 9

ClaimedRank(step) ==
    CASE step = "preprocess" -> 1
      [] step = "build_context" -> 2
      [] step = "retrieve" -> 3
      [] step = "generate" -> 4
      [] step = "validate" -> 5
      [] step = "explain" -> 6
      [] step = "add_user" -> 7
      [] step = "add_assistant" -> 8
      [] step = "return" -> 9

Increasing(trace, Rank(_)) ==
    \A i, j \in 1..Len(trace) : i < j => Rank(trace[i]) < Rank(trace[j])

Has(trace, step) == \E i \in 1..Len(trace) : trace[i] = step

\* C9 as claimed: the steps of a query call occur in the order preprocess,
\* retrieve, generate, validate, explain, persist, return, none repeated.
C9_ClaimedOrder ==
    \A p \in Procs : req[p].op = "query" => Increasing(obs[p].trace, ClaimedRank)

\* C9 amended: the steps of a query call occur in the order preprocess,
\* retrieve, generate, validate, persist (user then assistant message, when a
\* conversation id is given), explain (when requested and a document was
\* retrieved), return; none is repeated, and a call that returns made every
\* step that applies to it.
C9_StepsInCodeOrder ==
    \A p \in Procs :
        req[p].op = "query" =>
            /\ Increasing(obs[p].trace, CodeRank)
            /\ (QueryDone(p) /\ outcome[p] = "returned") =>
                 LET t == obs[p].trace
                     q == qry[p]
                 IN /\ Has(t, "preprocess") <=> q.use_query_preprocessing
                    /\ Has(t, "retrieve") /\ Has(t, "generate") /\ Has(t, "validate")
                    /\ Has(t, "add_user") <=> q.conversation_id # 0
                    /\ Has(t, "add_assistant") <=> q.conversation_id # 0
                    /\ Has(t, "explain") <=> (q.include_explanation /\ q.nodes # <<>>)
                    /\ Has(t, "explain") <=> q.explanation # <<>>
                    /\ t[Len(t)] = "return"

C9_Witness ==
    \E p \in Procs :
        /\ QueryDone(p) /\ outcome[p] = "returned"
        /\ Has(obs[p].trace, "preprocess")
        /\ Has(obs[p].trace, "add_assistant")
        /\ Has(obs[p].trace, "explain")
        /\ NewMessages(p, "assistant") # {}

Generated(p) == req[p].op = "query" /\ Has(obs[p].trace, "generate")
                /\ obs[p].raisedAt # "generate"

\* C10 as claimed: the context handed to answer generation is in
\* non-increasing order of weighted_score.
C10_ContextByWeightedScore ==
    \A p \in Procs :
        Generated(p) =>
            \A i, j \in 1..Len(qry[p].context) :
                i < j => WeightedScoreOf(qry[p].context[i])
                            >= WeightedScoreOf(qry[p].context[j])

\* C10 amended: the context handed to answer generation is the retrieved
\* nodes as the search service returned them, in non-increasing order of raw
\* similarity; no priority-weighted re-ranking is applied, and the explanation
\* reports the retrieval mode "similarity".
C10_ContextBySimilarity ==
    \A p \in Procs :
        Generated(p) =>
            /\ qry[p].context = qry[p].nodes
            /\ \A i, j \in 1..Len(qry[p].context) :
                  i < j => qry[p].context[i].score >= qry[p].context[j].score
            /\ qry[p].explanation # <<>> =>
                  qry[p].explanation[1].retrieval_mode = "similarity"

C10_Witness ==
    \E p \in Procs :
        /\ Generated(p)
        /\ Len(qry[p].context) = 2
        /\ qry[p].context[1].score > qry[p].context[2].score
        /\ WeightedScoreOf(qry[p].context[1]) < WeightedScoreOf(qry[p].context[2])

\* C26: with query preprocessing enabled, the text submitted to retrieval
\* is the cleaned query, and the user message stored in the history is the
\* original question.
C26_CleanedQueryRetrieved ==
    \A p \in Procs :
        (req[p].op = "query" /\ qry[p].use_query_preprocessing /\ Has(obs[p].trace, "retrieve")) =>
            /\ qry[p].full_question.question = qry[p].clean_question
            /\ \A m \in NewMessages(p, "user") : m.content = qry[p].question

Explained(p) == req[p].op = "query" /\ Has(obs[p].trace, "explain")

RanksAndSimilarities(p) ==
    LET docs == qry[p].explanation[1].documents_retrieved IN
    /\ Len(docs) = Len(qry[p].nodes)
    /\ \A i \in 1..Len(docs) :
          /\ docs[i].rank = i
          /\ docs[i].document_id = qry[p].nodes[i].document_id
          /\ docs[i].similarity_score = qry[p].nodes[i].score

\* C24 as claimed: the explanation holds one entry per retrieved document in
\* retrieval order, entry i with rank i, the raw similarity, and the
\* priority_score and type, approval and recency contributions that the
\* priority rules compute for the document's metadata.
C24_EntriesCarryPriority ==
    \A p \in Procs :
        Explained(p) =>
            /\ RanksAndSimilarities(p)
            /\ \A i \in 1..Len(qry[p].nodes) :
                  LET e == qry[p].explanation[1].documents_retrieved[i]
                      d == qry[p].nodes[i].document_id
                  IN /\ e.priority_score = extract_priority_from_metadata(d)
                     /\ e.type_contribution = CATEGORY_WEIGHTS(SourceTypeOf[d])
                     /\ e.approval_contribution = ApprovalWeight(IsPinnedOf[d], IsApprovedOf[d])
                     /\ e.recency_contribution = MaxAgeDays - AgeDaysOf[d]

\* C24 amended: one entry per retrieved document in retrieval order, entry i
\* with rank i and the raw similarity; priority_score and the three
\* contributions are 0.0 and final_score is the raw similarity, because no
\* priority information is handed to create_retrieval_explanation.
C24_EntriesWithoutPriority ==
    \A p \in Procs :
        Explained(p) =>
            /\ RanksAndSimilarities(p)
            /\ \A i \in 1..Len(qry[p].nodes) :
                  LET e == qry[p].explanation[1].documents_retrieved[i] IN
                  /\ e.priority_score = 0
                  /\ e.type_contribution = 0
                  /\ e.approval_contribution = 0
                  /\ e.recency_contribution = 0
                  /\ e.final_score = e.similarity_score

C24_Witness ==
    \E p \in Procs :
        /\ Explained(p)
        /\ Len(qry[p].explanation[1].documents_retrieved) = 2
        /\ qry[p].explanation[1].documents_retrieved[2].rank = 2

(***************************************************************************)
(* The library functions on their own: one application at a time, on       *)
(* arguments drawn from bounded sets.  fn records the function applied,    *)
(* its arguments and what it returned.                                     *)
(***************************************************************************)
(***************************************************************************)
(* llm.factory.create_llm and RAGEngine.set_llm_provider.  The settings    *)
(* (default provider, offline_mode, allow_cloud_llm) are inputs of a call. *)
(***************************************************************************)
PROVIDERS == [n \in {"gpt4all", "openai", "anthropic"} |-> n]
CLOUD_PROVIDERS == {"openai", "anthropic"}
ProviderArgs == {"None", "gpt4all", "openai", "anthropic", "llama"}

create_llmNoOfflineCheck(provider, default, offline_mode, allow_cloud_llm) ==
    LET name == IF provider = "None" THEN default ELSE provider IN
    IF name \notin DOMAIN PROVIDERS THEN [exc |-> "ValueError", llm |-> "None"]
    ELSE IF ~allow_cloud_llm /\ name \in CLOUD_PROVIDERS
         THEN [exc |-> "OfflineModeError", llm |-> "None"]
    ELSE [exc |-> NoException, llm |-> PROVIDERS[name]]

\* create_llm: provider "None" stands for a missing or empty argument
create_llm(provider, default, offline_mode, allow_cloud_llm) ==
    LET name == IF provider = "None" THEN default ELSE provider IN
    IF name \notin DOMAIN PROVIDERS THEN [exc |-> "ValueError", llm |-> "None"]
    ELSE IF offline_mode /\ name \in CLOUD_PROVIDERS
         THEN [exc |-> "OfflineModeError", llm |-> "None"]
    ELSE IF ~allow_cloud_llm /\ name \in CLOUD_PROVIDERS
         THEN [exc |-> "OfflineModeError", llm |-> "None"]
    ELSE [exc |-> NoException, llm |-> PROVIDERS[name]]

\* set_llm_provider with a provider name: the field is assigned after
\* create_llm has returned
set_llm_provider ==
    /\ fn = IdleFn
    /\ \E provider \in ProviderArgs, default \in DOMAIN PROVIDERS :
       \E offline_mode \in BOOLEAN, allow_cloud_llm \in BOOLEAN :
         LET out == create_llm(provider, default, offline_mode, allow_cloud_llm) IN
         /\ llm_provider' = IF out.exc = NoException THEN out.llm ELSE llm_provider
         /\ fn' = [name |-> "set_llm_provider", provider |-> provider, default |-> default,
                   offline_mode |-> offline_mode, allow_cloud_llm |-> allow_cloud_llm,
                   before |-> llm_provider, created |-> out.llm, exc |-> out.exc]
    /\ UNCHANGED <<conversations, stores, pc, req, result, rows, outcome, obs, calls, qry>>

\* C25: create_llm never returns a cloud provider while offline_mode is set
\* or allow_cloud_llm is false, it raises OfflineModeError instead; it raises
\* ValueError for an unknown provider name; when set_llm_provider fails in
\* either way the engine's provider is the one it had before.
C25_NoCloudProviderWhenOffline ==
    fn.name = "set_llm_provider" =>
        LET asked == IF fn.provider = "None" THEN fn.default ELSE fn.provider
            barred == fn.offline_mode \/ ~fn.allow_cloud_llm
        IN /\ barred => fn.created \notin {"openai", "anthropic"}
           /\ barred /\ asked \in {"openai", "anthropic"} => fn.exc = "OfflineModeError"
           /\ asked \notin {"gpt4all", "openai", "anthropic"} => fn.exc = "ValueError"
           /\ fn.exc # NoException => llm_provider = fn.before
           /\ fn.exc = NoException => llm_provider = asked

C25_Witness ==
    /\ fn.name = "set_llm_provider"
    /\ fn.offline_mode /\ fn.allow_cloud_llm
    /\ fn.provider = "openai"
    /\ fn.exc = "OfflineModeError"
    /\ fn.before = "anthropic" /\ llm_provider = "anthropic"

InitPure ==
    /\ collection = TRUE
    /\ index = {}
    /\ messages = {}
    /\ nextMsgId = 1
    /\ registry = [d \in DocIds |-> "active"]
    /\ audit = <<>>
    /\ auditEnabled = TRUE
    /\ InitProcs
    /\ llm_provider \in DOMAIN PROVIDERS
    /\ conversations = {1}

\* answers for the validator: with or without a refusal phrase, with or
\* without an inline citation marker, shorter or longer than 100 characters
RefusalWords == {"Could not find", "no information", "not found in", "don't have information", "no relevant"}
MarkerWords == {"[Source:", "[source "}
Opt(w, present) == IF present THEN <<w>> ELSE <<>>

GroundingAnswers ==
    { <<"it">> \o Opt(r, hasR) \o Opt(m, hasM) \o Opt(LongText, long) :
        r \in RefusalWords, m \in MarkerWords, hasR \in BOOLEAN, hasM \in BOOLEAN, long \in BOOLEAN }

CitationLists == {<<>>, <<"d1">>, <<"d1", "d2">>}

ValidateGrounding ==
    /\ fn = IdleFn
    /\ \E answer \in GroundingAnswers, citations \in CitationLists :
         fn' = [name |-> "validate_grounding", answer |-> answer, citations |-> citations,
                ret |-> validate_grounding(answer, citations)]
    /\ UNCHANGED <<llm_provider, conversations, stores, pc, req, result, rows, outcome, obs, calls, qry>>

HasRefusal(answer) == \E ph \in NoInfoPhrases : Contains(answer, ph)
HasMarker(answer) == Contains(answer, "[source:") \/ Contains(answer, "[source ")

\* C11: validate_grounding returns True exactly when the answer contains a
\* refusal phrase, or it contains a citation marker and the citation list is
\* non-empty, or the citation list is empty and the answer is shorter than
\* 100 characters; in every other case it returns False.
C11_GroundedExactlyInThreeCases ==
    fn.name = "validate_grounding" =>
        (fn.ret <=> \/ HasRefusal(fn.answer)
                    \/ HasMarker(fn.answer) /\ fn.citations # <<>>
                    \/ fn.citations = <<>> /\ TextLen(fn.answer) < 100)

\* C12: in the result of query(), no_context_found is True whenever the
\* citation list is empty or the answer contains any refusal phrase the
\* grounding validator recognises; the answer "I could not find this
\* information" with zero citations gives is_grounded and no_context_found.
C12_NoContextOnAnyRefusal ==
    \A p \in Procs :
        QueryDone(p) /\ outcome[p] = "returned" =>
            /\ (qry[p].citations = <<>> \/ HasRefusal(qry[p].answer)) => qry[p].no_context_found
            /\ (qry[p].citations = <<>> /\ Contains(qry[p].answer, "could not find")) =>
                   qry[p].is_grounded /\ qry[p].no_context_found

\* C12 amended: in the result of query(), no_context_found is True exactly
\* when the citation list is empty or the answer contains "could not find"
\* (in any letter case); the validator's other refusal phrases make
\* is_grounded True but do not set no_context_found.  The answer "I could not
\* find this information" with zero citations gives both flags True.
C12_NoContextOnCouldNotFind ==
    \A p \in Procs :
        QueryDone(p) /\ outcome[p] = "returned" =>
            /\ qry[p].no_context_found <=>
                   (qry[p].citations = <<>> \/ Contains(qry[p].answer, "could not find"))
            /\ HasRefusal(qry[p].answer) => qry[p].is_grounded
            /\ (qry[p].citations = <<>> /\ Contains(qry[p].answer, "could not find")) =>
                   qry[p].is_grounded /\ qry[p].no_context_found

C12_Witness ==
    \E p \in Procs :
        /\ QueryDone(p) /\ outcome[p] = "returned"
        /\ qry[p].citations # <<>>
        /\ Contains(qry[p].answer, "no information")
        /\ qry[p].is_grounded /\ ~qry[p].no_context_found

(***************************************************************************)
(* calculate_priority with all its arguments.  Time is counted in hours;   *)
(* a date is absent, an empty string, a string that does not parse, or an  *)
(* instant.  A fraction is a record num/den.                               *)
(***************************************************************************)
HoursPerDay == 24
NoDate == [kind |-> "none"]
DateHours == {5, 0, -22, -23, -24, -48, -8759, -8760, -9600}
Dates == {NoDate, [kind |-> "empty"], [kind |-> "malformed"]} \cup {[kind |-> "iso", at |-> h] : h \in DateHours}
Nows == {0, 1}
PrioritySourceTypes == {"None", "email", "whatsapp", "fax"}
PriorityCategories == {"None", "profile", "decision", "search_history"}
MaxAgeArgs == {0, 1, 365}     \* 0: the argument is left out

AgeInHours(date, now) ==
    IF date.kind = "iso" THEN now - date.at ELSE 0

\* (datetime.now() - parsed_date).days; a date that does not parse is
\* replaced by datetime.now()
AgeDays(date, now) ==
    IF date.kind = "iso" THEN (now - date.at) \div HoursPerDay ELSE 0

RecencyWeightUnclamped(date, max_age_days, now) ==
    IF date.kind \in {"none", "empty"} THEN [num |-> max_age_days, den |-> 2 * max_age_days]
    ELSE [num |-> 2 * (max_age_days - AgeDays(date, now)), den |-> 2 * max_age_days]

\* max(0.0, 1.0 - age_days / max_age_days), or 0.5 without a date
RecencyWeight(date, max_age_days, now) ==
    IF date.kind \in {"none", "empty"} THEN [num |-> max_age_days, den |-> 2 * max_age_days]
    ELSE LET left == max_age_days - AgeDays(date, now) IN
         [num |-> 2 * (IF left > 0 THEN left ELSE 0), den |-> 2 * max_age_days]

\* the DocumentPriority that calculate_priority returns
DocumentPriority(source_type, document_category, date, is_pinned, is_approved, max_age_arg, now) ==
    LET max_age_days == IF max_age_arg = 0 THEN MaxAgeDays ELSE max_age_arg
        category == IF document_category # "None" THEN document_category
                    ELSE IF source_type # "None" THEN source_type ELSE "note"
        type_weight == CATEGORY_WEIGHTS(category)
        approval_weight == ApprovalWeight(is_pinned, is_approved)
        recency_weight == RecencyWeight(date, max_age_days, now)
    IN [type_weight |-> type_weight,
        approval_weight |-> approval_weight,
        recency_weight |-> recency_weight,
        type_contribution |-> [num |-> type_weight, den |-> 100],
        approval_contribution |-> [num |-> approval_weight, den |-> 50],
        recency_contribution |-> recency_weight,
        priority_score |->
            [num |-> 2 * (type_weight \div 5) * max_age_days
                     + 6 * (approval_weight \div 10) * max_age_days + 15 * recency_weight.num,
             den |-> 100 * max_age_days]]

CalculatePriority ==
    /\ fn = IdleFn
    /\ \E st \in PrioritySourceTypes, cat \in PriorityCategories, date \in Dates, now \in Nows :
       \E is_pinned \in BOOLEAN, is_approved \in BOOLEAN, max_age_arg \in MaxAgeArgs :
         fn' = [name |-> "calculate_priority", source_type |-> st, document_category |-> cat,
                date |-> date, is_pinned |-> is_pinned, is_approved |-> is_approved,
                max_age_days |-> IF max_age_arg = 0 THEN MaxAgeDays ELSE max_age_arg,
                now |-> now,
                ret |-> DocumentPriority(st, cat, date, is_pinned, is_approved, max_age_arg, now)]
    /\ UNCHANGED <<llm_provider, conversations, stores, pc, req, result, rows, outcome, obs, calls, qry>>

\* 0 <= f <= n/d, for a fraction f with a positive denominator
Within(f, n, d) == f.num >= 0 /\ f.num * d <= n * f.den

\* C13: for every input of calculate_priority (absent, malformed, past and
\* future dates included) the type contribution is in [0, 1.2] and the
\* approval and recency contributions are in [0, 1].
C13_ContributionsInRange ==
    fn.name = "calculate_priority" =>
        /\ Within(fn.ret.type_contribution, 12, 10)
        /\ Within(fn.ret.approval_contribution, 1, 1)
        /\ Within(fn.ret.recency_contribution, 1, 1)

\* C14: recency_weight is max(0, 1 - age_days/max_age_days): it falls by
\* 1/max_age_days per whole day of age, it is exactly 0 and never negative
\* for every date at least max_age_days old, and it is 1/2 when no date is
\* given.
C14_RecencyFloorAndDefault ==
    fn.name = "calculate_priority" =>
        LET r == fn.ret.recency_weight
            hours == fn.now - fn.date.at
        IN /\ r.num >= 0 /\ r.den > 0
           /\ fn.date.kind = "none" => 2 * r.num = r.den
           /\ fn.date.kind = "iso" /\ hours >= HoursPerDay * fn.max_age_days => r.num = 0
           /\ fn.date.kind = "iso" /\ hours < HoursPerDay * fn.max_age_days =>
                 \E age \in -1..fn.max_age_days - 1 :
                    /\ HoursPerDay * age <= hours /\ hours < HoursPerDay * (age + 1)
                    /\ r.num * fn.max_age_days = (fn.max_age_days - age) * r.den

C14_Witness ==
    /\ fn.name = "calculate_priority"
    /\ fn.date.kind = "iso"
    /\ fn.now - fn.date.at > HoursPerDay * fn.max_age_days
    /\ fn.ret.recency_weight.num = 0

(***************************************************************************)
(* calculate_weighted_score with caller-supplied weights.  Weights are in  *)
(* tenths; an argument of 0 stands for both None and 0.0, which `or`       *)
(* treats alike.                                                           *)
(***************************************************************************)
WeightArgs == {0, 3, 5, 10, 20}
Similarities == {[num |-> n, den |-> 10] : n \in {0, 8, 10}}
PriorityScores == {[num |-> n, den |-> 10] : n \in {1, 6, 10}}

\* the weights after `or` and after the division by their total
EffectiveWeights(similarity_weight, priority_weight) ==
    LET sw == IF similarity_weight = 0 THEN SimilarityWeight ELSE similarity_weight
        pw == IF priority_weight = 0 THEN PriorityWeight ELSE priority_weight
        total == sw + pw
    IN IF total # 10
       THEN [similarity |-> [num |-> sw, den |-> total], priority |-> [num |-> pw, den |-> total]]
       ELSE [similarity |-> [num |-> sw, den |-> 10], priority |-> [num |-> pw, den |-> 10]]

\* similarity_weight * similarity_score + priority_weight * priority_score
WeightedScore(similarity, priority, similarity_weight, priority_weight) ==
    LET w == EffectiveWeights(similarity_weight, priority_weight) IN
    [num |-> w.similarity.num * similarity.num * priority.den
             + w.priority.num * priority.num * similarity.den,
     den |-> w.similarity.den * similarity.den * priority.den]

CalculateWeightedScore ==
    /\ fn = IdleFn
    /\ \E similarity \in Similarities, priority \in PriorityScores :
       \E ws \in WeightArgs, wp \in WeightArgs :
         fn' = [name |-> "calculate_weighted_score", similarity |-> similarity,
                priority |-> priority, similarity_weight |-> ws, priority_weight |-> wp,
                weights |-> EffectiveWeights(ws, wp),
                ret |-> WeightedScore(similarity, priority, ws, wp)]
    /\ UNCHANGED <<llm_provider, conversations, stores, pc, req, result, rows, outcome, obs, calls, qry>>

\* C18: for every supplied weight pair (ws, wp) whose sum is not 1, a zero
\* weight included, the effective weights are ws/(ws+wp) and wp/(ws+wp) and
\* the result is (ws * similarity + wp * priority_score) / (ws + wp).
C18_NormalizedSuppliedWeights ==
    fn.name = "calculate_weighted_score" =>
        LET ws == fn.similarity_weight
            wp == fn.priority_weight
            s == fn.similarity
            pr == fn.priority
        IN ws + wp # 10 /\ ws + wp > 0 =>
             /\ fn.weights.similarity.num * (ws + wp) = ws * fn.weights.similarity.den
             /\ fn.weights.priority.num * (ws + wp) = wp * fn.weights.priority.den
             /\ fn.ret.num * ((ws + wp) * s.den * pr.den)
                   = (ws * s.num * pr.den + wp * pr.num * s.den) * fn.ret.den

(***************************************************************************)
(* rank_documents with caller-supplied weights, on lists of candidates     *)
(* that carry the metadata the priority is computed from.                  *)
(***************************************************************************)
MaxListLen == 3
Candidate(content, source_type, date, is_pinned, score) ==
    [content |-> content,
     metadata |-> [source_type |-> source_type, date |-> date, is_pinned |-> is_pinned],
     score |-> [num |-> score, den |-> 100]]

\* "a" and "e" always score alike; "a" and "b" score alike until "b" is a
\* day old
CandidatePool ==
    {Candidate("a", "email", [kind |-> "iso", at |-> 0], FALSE, 80),
     Candidate("b", "email", [kind |-> "iso", at |-> -23], FALSE, 80),
     Candidate("e", "email", [kind |-> "malformed"], FALSE, 80),
     Candidate("c", "whatsapp", NoDate, TRUE, 90)}

CandidateLists == UNION {[1..n -> CandidatePool] : n \in 0..MaxListLen}
WeightPairs == {<<0, 0>>, <<5, 5>>, <<10, 20>>}

\* one RankedDocument; input_index tells the objects of one list apart
RankedDocument(documents, i, similarity_weight, priority_weight, now) ==
    LET doc == documents[i]
        m == doc.metadata
        priority == DocumentPriority(m.source_type, "None", m.date, m.is_pinned, FALSE, 0, now)
    IN [input_index |-> i,
        content |-> doc.content,
        metadata |-> m,
        similarity_score |-> doc.score,
        priority |-> priority,
        weighted_score |-> WeightedScore(doc.score, priority.priority_score,
                                         similarity_weight, priority_weight)]

RECURSIVE InsertBeforeEqual(_, _)
InsertBeforeEqual(ranked, rd) ==
    IF ranked = <<>> THEN <<rd>>
    ELSE IF Head(ranked).weighted_score.num > rd.weighted_score.num
         THEN <<Head(ranked)>> \o InsertBeforeEqual(Tail(ranked), rd)
         ELSE <<rd>> \o ranked

RECURSIVE InsertByWeighted(_, _)
\* where list.sort(key=weighted_score, reverse=True) leaves the document rd:
\* behind the documents before it in the list that score at least as much
\* (the scores of one call have one denominator)
InsertByWeighted(ranked, rd) ==
    IF ranked = <<>> THEN <<rd>>
    ELSE IF Head(ranked).weighted_score.num >= rd.weighted_score.num
         THEN <<Head(ranked)>> \o InsertByWeighted(Tail(ranked), rd)
         ELSE <<rd>> \o ranked

RECURSIVE SortRanked(_)
SortRanked(ranked) ==
    IF ranked = <<>> THEN <<>>
    ELSE InsertByWeighted(SortRanked(SubSeq(ranked, 1, Len(ranked) - 1)), ranked[Len(ranked)])

RankDocumentsUnsorted(documents, similarity_weight, priority_weight, now) ==
    [i \in 1..Len(documents) |-> RankedDocument(documents, i, similarity_weight, priority_weight, now)]

\* rank_documents(documents, similarity_weight, priority_weight), called at the instant now
RankDocuments(documents, similarity_weight, priority_weight, now) ==
    SortRanked([i \in 1..Len(documents) |->
                   RankedDocument(documents, i, similarity_weight, priority_weight, now)])

\* one list ranked at an instant and again at the same or a later instant
RankDocumentsCall ==
    /\ fn = IdleFn
    /\ \E documents \in CandidateLists, w \in WeightPairs, now \in Nows, later \in Nows :
         /\ now <= later
         /\ fn' = [name |-> "rank_documents", documents |-> documents,
                   similarity_weight |-> w[1], priority_weight |-> w[2],
                   now |-> now, ret |-> RankDocuments(documents, w[1], w[2], now),
                   later |-> later, again |-> RankDocuments(documents, w[1], w[2], later)]
    /\ UNCHANGED <<llm_provider, conversations, stores, pc, req, result, rows, outcome, obs, calls, qry>>

NonIncreasing(ranked) ==
    \A i, j \in 1..Len(ranked) :
        i < j => ranked[i].weighted_score.num >= ranked[j].weighted_score.num

Order(ranked) == [i \in 1..Len(ranked) |-> ranked[i].input_index]

\* C15: for any input list, the empty and the one-element list included,
\* rank_documents returns exactly one RankedDocument per input candidate, and
\* weighted_score is non-increasing along the returned list.
C15_OnePerCandidateNonIncreasing ==
    fn.name = "rank_documents" =>
        /\ Len(fn.ret) = Len(fn.documents)
        /\ {fn.ret[i].input_index : i \in 1..Len(fn.ret)} = 1..Len(fn.documents)
        /\ \A i \in 1..Len(fn.ret) :
              /\ fn.ret[i].content = fn.documents[fn.ret[i].input_index].content
              /\ fn.ret[i].similarity_score = fn.documents[fn.ret[i].input_index].score
        /\ NonIncreasing(fn.ret)

C15_Witness ==
    /\ fn.name = "rank_documents"
    /\ Len(fn.documents) = MaxListLen
    /\ Order(fn.ret) # [i \in 1..Len(fn.documents) |-> i]
    /\ fn.ret[1].weighted_score.num > fn.ret[Len(fn.ret)].weighted_score.num

\* C16: rank_documents is a stable sort: two candidates with equal
\* weighted_score appear in the output in the order they had in the input.
C16_TiesKeepInputOrder ==
    fn.name = "rank_documents" =>
        \A i, j \in 1..Len(fn.ret) :
            (i < j /\ fn.ret[i].weighted_score = fn.ret[j].weighted_score) =>
                fn.ret[i].input_index < fn.ret[j].input_index

C16_Witness ==
    /\ fn.name = "rank_documents"
    /\ \E i, j \in 1..Len(fn.ret) :
          /\ i < j
          /\ fn.ret[i].weighted_score = fn.ret[j].weighted_score
          /\ fn.ret[i].content # fn.ret[j].content
    /\ Order(fn.ret) # [i \in 1..Len(fn.documents) |-> i]

\* C17 as claimed: two invocations of rank_documents on the same candidate
\* list with the same weights return the documents in the same order.
C17_SameListSameOrder ==
    fn.name = "rank_documents" => Order(fn.again) = Order(fn.ret)

\* the age in whole days of every dated candidate is the same at both instants
SameWholeDayAges(documents, now, later) ==
    \A i \in 1..Len(documents) :
        LET date == documents[i].metadata.date IN
        date.kind = "iso" =>
            \E age \in -1..1 :
                /\ HoursPerDay * age <= now - date.at /\ now - date.at < HoursPerDay * (age + 1)
                /\ HoursPerDay * age <= later - date.at /\ later - date.at < HoursPerDay * (age + 1)

\* C17 amended: two invocations of rank_documents on the same candidate list
\* with the same weights return the documents in the same order when every
\* dated candidate has the same age in whole days at both invocations; the
\* ordering depends on the list, the weights and these ages.
C17_SameListSameAgesSameOrder ==
    fn.name = "rank_documents" /\ SameWholeDayAges(fn.documents, fn.now, fn.later) =>
        Order(fn.again) = Order(fn.ret)

C17_Witness ==
    /\ fn.name = "rank_documents"
    /\ fn.later > fn.now
    /\ SameWholeDayAges(fn.documents, fn.now, fn.later)
    /\ \E i, j \in 1..Len(fn.documents) :
          fn.documents[i].metadata.date.kind = "iso" /\ fn.documents[j].content = "e"
    /\ Order(fn.ret) # [i \in 1..Len(fn.documents) |-> i]
    /\ Order(fn.again) = Order(fn.ret)

(***************************************************************************)
(* VectorStore.search and search_with_priority.  hits is what the index    *)
(* holds for the query, best similarity first; the retriever returns the   *)
(* first similarity_top_k of it.                                           *)
(***************************************************************************)
MaxHits == MaxListLen + 1
HitLists ==
    {h \in UNION {[1..n -> CandidatePool] : n \in 0..MaxHits} :
        \A i, j \in 1..Len(h) : i < j => h[i].score.num >= h[j].score.num}
TopKArgs == {0, 1, 2}      \* 0: the argument is left out
SearchFilters == {"None", "email"}     \* a filter on source_type

\* VectorStore.search: retrieve top_k nodes, then drop those the filters reject
search(hits, top_k, filters) ==
    LET k == IF top_k = 0 THEN DefaultTopK ELSE top_k
        Match(node) == filters # "None" => node.metadata.source_type = filters
    IN SelectSeq(TakeFirst(hits, k), Match)

FetchKSameAsTopK(fetch_k, top_k) == IF fetch_k = 0 THEN top_k ELSE fetch_k

\* fetch_k or top_k * 3
FetchK(fetch_k, top_k) == IF fetch_k = 0 THEN top_k * 3 ELSE fetch_k

ResultDict(doc) ==
    [content |-> doc.content, metadata |-> doc.metadata, score |-> doc.similarity_score,
     priority |-> doc.priority, weighted_score |-> doc.weighted_score]

search_with_priority(hits, top_k_arg, fetch_k_arg, filters, now) ==
    LET top_k == IF top_k_arg = 0 THEN DefaultTopK ELSE top_k_arg
        fetch_k == FetchK(fetch_k_arg, top_k)
        candidates == search(hits, fetch_k, filters)
        ranked == RankDocuments(candidates, 0, 0, now)
        kept == TakeFirst(ranked, top_k)
    IN [requested |-> fetch_k, candidates |-> candidates, ranked |-> ranked,
        results |-> [i \in 1..Len(kept) |-> ResultDict(kept[i])]]

SearchWithPriority ==
    /\ fn = IdleFn
    /\ \E hits \in HitLists, top_k \in TopKArgs, fetch_k \in TopKArgs :
       \E filters \in SearchFilters, now \in Nows :
         LET r == search_with_priority(hits, top_k, fetch_k, filters, now) IN
         fn' = [name |-> "search_with_priority", hits |-> hits, top_k |-> top_k,
                fetch_k |-> fetch_k, filters |-> filters, now |-> now,
                requested |-> r.requested, candidates |-> r.candidates,
                ranked |-> r.ranked, ret |-> r.results]
    /\ UNCHANGED <<llm_provider, conversations, stores, pc, req, result, rows, outcome, obs, calls, qry>>

\* how many entries of the list score at least v
ScoringAtLeast(list, v) == Cardinality({i \in 1..Len(list) : list[i].weighted_score.num >= v})
Min(a, b) == IF a < b THEN a ELSE b

\* C19: search_with_priority(query, top_k=k) asks the search service for 3k
\* candidates when fetch_k is not given, and returns at most k results: the
\* k candidates of highest weighted_score among those fetched, in
\* non-increasing order of weighted_score.
C19_TopKOfThreeTimesK ==
    fn.name = "search_with_priority" /\ fn.top_k > 0 =>
        /\ fn.fetch_k = 0 => fn.requested = 3 * fn.top_k
        /\ Len(fn.ret) = Min(fn.top_k, Len(fn.candidates))
        /\ NonIncreasing(fn.ret)
        /\ \A i \in 1..Len(fn.ret) : \E j \in 1..Len(fn.ranked) : fn.ret[i] = ResultDict(fn.ranked[j])
        /\ \A j \in 1..Len(fn.ranked) :
              LET v == fn.ranked[j].weighted_score.num IN
              ScoringAtLeast(fn.ret, v) = Min(fn.top_k, ScoringAtLeast(fn.ranked, v))

C19_Witness ==
    /\ fn.name = "search_with_priority"
    /\ fn.top_k = 1 /\ fn.fetch_k = 0
    /\ Len(fn.hits) > fn.requested
    /\ Len(fn.candidates) = 3
    /\ Len(fn.ret) = 1
    /\ fn.ret[1].weighted_score.num > fn.ranked[2].weighted_score.num
    /\ fn.ret[1].content # fn.candidates[1].content

(***************************************************************************)
(* DocumentRegistry.split_metadata and merge_metadata.  A metadata mapping *)
(* is a function on its keys; a value is known by a name and by the length *)
(* of str(value).                                                          *)
(***************************************************************************)
LIGHT_METADATA_FIELDS ==
    {"document_id", "source_type", "date", "date_end", "sender", "document_category",
     "contact_name", "normalized_name", "is_group_chat", "thread_type", "message_count",
     "participant_count"}

HEAVY_METADATA_FIELDS ==
    {"file_path", "filename", "indexed_at", "is_pinned", "is_approved", "family_members",
     "work_history", "education", "shared_links", "media_types", "has_media",
     "reaction_count", "chat_name", "participants", "search_query", "full_name",
     "first_name", "last_name", "email", "phone", "birthday", "gender", "city", "hometown",
     "relationship_status", "partner", "username", "registration_date", "latitude",
     "longitude", "cities", "regions", "location_type", "record_count", "contact_type",
     "friendship_date"}

LongValueLen == 100
MetadataKeys == {"document_id", "sender", "file_path", "subject", "body_preview"}
MetadataValues == {[value |-> v, strlen |-> n] : v \in {"x"}, n \in {0, LongValueLen, LongValueLen + 1}}
MetadataMappings == UNION {[K -> MetadataValues] : K \in SUBSET MetadataKeys}

InLightAt100(metadata, key) ==
    \/ key \in LIGHT_METADATA_FIELDS
    \/ key \notin HEAVY_METADATA_FIELDS /\ ~(metadata[key].strlen >= LongValueLen)

\* the branch of the loop that puts the key into light
InLight(metadata, key) ==
    \/ key \in LIGHT_METADATA_FIELDS
    \/ key \notin HEAVY_METADATA_FIELDS /\ ~(metadata[key].strlen > LongValueLen)

split_metadata(metadata) ==
    LET keys == DOMAIN metadata
        lightKeys == {k \in keys : InLight(metadata, k)}
        heavyKeys == keys \ lightKeys
        both == keys \cap {"document_id"}
    IN [light |-> [k \in lightKeys \cup both |-> metadata[k]],
        heavy |-> [k \in heavyKeys \cup both |-> metadata[k]]]

\* dict(light_metadata), updated by heavy_metadata unless that is empty or None
merge_metadata(light_metadata, heavy_metadata) ==
    IF DOMAIN heavy_metadata = {} THEN light_metadata
    ELSE [k \in DOMAIN light_metadata \cup DOMAIN heavy_metadata |->
             IF k \in DOMAIN heavy_metadata THEN heavy_metadata[k] ELSE light_metadata[k]]

SplitThenMerge ==
    /\ fn = IdleFn
    /\ \E metadata \in MetadataMappings :
         LET halves == split_metadata(metadata) IN
         fn' = [name |-> "split_metadata", metadata |-> metadata,
                light |-> halves.light, heavy |-> halves.heavy,
                ret |-> merge_metadata(halves.light, halves.heavy)]
    /\ UNCHANGED <<llm_provider, conversations, stores, pc, req, result, rows, outcome, obs, calls, qry>>

\* C20: merging the two halves of a split mapping gives the mapping back;
\* every key is in exactly one half, except document_id, which is in both;
\* a key of neither field set is in the light half when str(value) has at
\* most 100 characters and in the heavy half otherwise.
C20_SplitMergeRoundTrip ==
    fn.name = "split_metadata" =>
        /\ fn.ret = fn.metadata
        /\ DOMAIN fn.light \cup DOMAIN fn.heavy = DOMAIN fn.metadata
        /\ \A k \in DOMAIN fn.metadata :
              /\ k # "document_id" => (k \in DOMAIN fn.light) # (k \in DOMAIN fn.heavy)
              /\ k = "document_id" =>
                    /\ k \in DOMAIN fn.light /\ fn.light[k] = fn.metadata[k]
                    /\ k \in DOMAIN fn.heavy /\ fn.heavy[k] = fn.metadata[k]
              /\ k \notin LIGHT_METADATA_FIELDS \cup HEAVY_METADATA_FIELDS =>
                    (k \in DOMAIN fn.light <=> fn.metadata[k].strlen <= 100)

C20_Witness ==
    /\ fn.name = "split_metadata"
    /\ DOMAIN fn.metadata = MetadataKeys
    /\ fn.metadata["subject"].strlen = 100 /\ "subject" \in DOMAIN fn.light
    /\ fn.metadata["body_preview"].strlen = 101 /\ "body_preview" \in DOMAIN fn.heavy
    /\ fn.ret = fn.metadata

(***************************************************************************)
(* QueryPreprocessor.preprocess on its own, and on its own cleaned output. *)
(***************************************************************************)
PreprocessQueries ==
    {<<"vacation", "plans">>,
     <<"messages", "from", "Ewa", "about", "vacation">>,
     <<"messages", "from", "Ewa", "with", "Jan">>,
     <<"email", "and", "whatsapp", "plans">>,
     <<"plans", "in", "december", "2021">>,
     <<"in", "december", "9999", "notes">>,
     <<"notes", "during", "may", "0000">>,
     <<"plans", "2021-12">>,
     <<"plans", "0000-12">>,
     <<"plans", "12/9999">>,
     <<"plans", "1/0000">>,
     <<"plans", "2021-13", "last", "week">>,
     <<"trip", "5/2021", "with", "Jan", "on", "WhatsApp">>}

Preprocess ==
    /\ fn = IdleFn
    /\ \E q \in PreprocessQueries :
         LET first == preprocess(q) IN
         fn' = [name |-> "preprocess", query |-> q, ret |-> first,
                again |-> IF first.raised THEN first ELSE preprocess(first.clean_query)]
    /\ UNCHANGED <<llm_provider, conversations, stores, pc, req, result, rows, outcome, obs, calls, qry>>

\* C21: preprocessing the cleaned output of a first pass extracts nothing
\* more: person_filter, date_range and source_filter are unset and
\* extracted_filters is empty.
C21_SecondPassExtractsNothing ==
    fn.name = "preprocess" /\ ~fn.ret.raised =>
        /\ fn.again.person_filter = "None"
        /\ fn.again.date_range = NoRange
        /\ fn.again.source_filter = "None"
        /\ fn.again.extracted_filters = {}

\* C22: preprocess returns a PreprocessedQuery and never raises, for every
\* query, the numeric date forms YYYY-MM and MM/YYYY with any four-digit year
\* included.
C22_PreprocessNeverRaises ==
    fn.name = "preprocess" => ~fn.ret.raised

(***************************************************************************)
(* AuditLogger.log called with details of every shape: allowed and         *)
(* forbidden keys, string values up to and beyond the length limit.        *)
(***************************************************************************)
DetailKeySets == {{"reason"}, {"file_path", "reason"}, {"reason", "content"}, {"answer"}, {"query_text", "message"}}
DetailLens == {Len("user_request"), MaxDetailLen, MaxDetailLen + 1}
DetailsArgs == {[strs |-> [k \in K |-> n], chunks_deleted |-> 1] : K \in DetailKeySets, n \in DetailLens}

LogCall ==
    /\ fn = IdleFn
    /\ \E details \in DetailsArgs, d \in DocIds, fault \in BOOLEAN :
         LET out == log(audit, auditEnabled, d, details, fault) IN
         /\ fault => auditEnabled /\ validate_no_content(details)
         /\ audit' = out.audit
         /\ fn' = [name |-> "log", details |-> details, before |-> audit,
                   ret |-> out.ret, exc |-> out.exc]
    /\ UNCHANGED <<collection, index, messages, nextMsgId, registry, auditEnabled>>
    /\ UNCHANGED <<llm_provider, conversations, pc, req, result, rows, outcome, obs, calls, qry>>

LooksLikeContent(details) ==
    \/ \E k \in DetailKeys(details) : k \in {"content", "text", "body", "message", "query_text", "answer"}
    \/ \E k \in DOMAIN details.strs : details.strs[k] > 500

NextPure ==
    \/ ValidateGrounding
    \/ set_llm_provider
    \/ LogCall
    \/ Preprocess
    \/ SplitThenMerge
    \/ SearchWithPriority
    \/ RankDocumentsCall
    \/ CalculateWeightedScore
    \/ CalculatePriority

SpecPure == InitPure /\ [][NextPure]_vars

(***************************************************************************)
(* The history store and the document registry on their own: one caller,   *)
(* any sequence of store operations; fn holds the last call.               *)
(***************************************************************************)
MaxMessages == 2

\* purge_by_document as a whole: SELECT, the UPDATE loop, commit or rollback
purge_by_document(msgs, d, failAt, lastId) ==
    LET rws == PurgeSelectRows(msgs)
        exc == IF failAt = -1 THEN NoException ELSE "database is locked"
        working == PurgeUpdates(msgs, rws, "document_id", d,
                                IF failAt = -1 THEN lastId ELSE failAt)
    IN [messages |-> GetConnectionExit(msgs, working, exc),
        ret |-> IF failAt = -1 THEN PurgeCount(rws, "document_id", d) ELSE 0,
        exc |-> exc]

\* DELETE FROM conversations WHERE id = ?; the messages table declares
\* ON DELETE CASCADE, which SQLite enforces only on a connection with
\* foreign_keys on. _get_connection never sets the pragma, so the connection
\* has the library's compiled default (off unless built otherwise).
delete_conversation(convs, msgs, c, foreign_keys) ==
    [conversations |-> convs \ {c},
     messages |-> IF foreign_keys /\ c \in convs
                  THEN {m \in msgs : m.conversation_id # c} ELSE msgs,
     ret |-> c \in convs]

\* register_document: an existing row of the path is updated with
\* status = active; otherwise a row is inserted (the model's document id
\* of a path stands for the generated uuid)
register_document(reg, path) ==
    LET existing == get_by_file_path(reg, path)
        d == IF existing # "None" THEN existing
             ELSE CHOOSE x \in DocIds : FilePathOf[x] = path
    IN [registry |-> [reg EXCEPT ![d] = "active"], id |-> d]

mark_archived(reg, d) ==
    IF d \in DOMAIN reg /\ reg[d] # "none"
    THEN [registry |-> [reg EXCEPT ![d] = "archived"], ret |-> 1]
    ELSE [registry |-> reg, ret |-> 0]

list_documents(reg, status) == {d \in DocIds : reg[d] = status}

list_deletable_documents(reg) == list_documents(reg, "active")

InitStores ==
    /\ collection = TRUE
    /\ index = {}
    /\ messages \in InitMessageTables
    /\ nextMsgId = Cardinality(messages) + 1
    /\ registry \in [DocIds -> {"none", "active"}]
    /\ audit = <<>>
    /\ auditEnabled = TRUE
    /\ InitProcs
    /\ InitEngine

AddMessage ==
    /\ nextMsgId <= MaxMessages
    /\ \E c \in conversations, src \in InitSources :
         /\ messages' = add_message(messages, nextMsgId, c, "assistant", <<"ok">>, src)
         /\ fn' = [name |-> "add_message", id |-> nextMsgId]
    /\ nextMsgId' = nextMsgId + 1
    /\ UNCHANGED <<collection, index, registry, audit, auditEnabled>>
    /\ UNCHANGED <<llm_provider, conversations, pc, req, result, rows, outcome, obs, calls, qry>>

PurgeByDocument ==
    /\ \E d \in DocIds, failAt \in -1..(nextMsgId - 1) :
         LET out == purge_by_document(messages, d, failAt, nextMsgId) IN
         /\ messages' = out.messages
         /\ fn' = [name |-> "purge_by_document", document_id |-> d, before |-> messages,
                   ret |-> out.ret, exc |-> out.exc,
                   repeated |-> /\ fn.name = "purge_by_document"
                                /\ fn.document_id = d
                                /\ fn.exc = NoException]
    /\ UNCHANGED <<collection, index, nextMsgId, registry, audit, auditEnabled>>
    /\ UNCHANGED <<llm_provider, conversations, pc, req, result, rows, outcome, obs, calls, qry>>

DeleteConversation ==
    /\ \E c \in ConvIds, foreign_keys \in BOOLEAN :
         LET out == delete_conversation(conversations, messages, c, foreign_keys) IN
         /\ conversations' = out.conversations
         /\ messages' = out.messages
         /\ fn' = [name |-> "delete_conversation", conversation_id |-> c, ret |-> out.ret]
    /\ UNCHANGED <<collection, index, nextMsgId, registry, audit, auditEnabled>>
    /\ UNCHANGED <<llm_provider, pc, req, result, rows, outcome, obs, calls, qry>>

RegistryUnchanged ==
    /\ UNCHANGED <<collection, index, messages, nextMsgId, audit, auditEnabled>>
    /\ UNCHANGED <<llm_provider, conversations, pc, req, result, rows, outcome, obs, calls, qry>>

RegisterDocument ==
    /\ \E path \in FilePaths :
         LET out == register_document(registry, path) IN
         /\ registry' = out.registry
         /\ fn' = [name |-> "register_document", file_path |-> path, id |-> out.id]
    /\ RegistryUnchanged

MarkArchivedCall ==
    /\ \E d \in DocIds :
         LET out == mark_archived(registry, d) IN
         /\ registry' = out.registry
         /\ fn' = [name |-> "mark_archived", document_id |-> d, ret |-> out.ret]
    /\ RegistryUnchanged

MarkDeletedCall ==
    /\ \E d \in DocIds :
         LET out == mark_deleted(registry, d) IN
         /\ registry' = out.registry
         /\ fn' = [name |-> "mark_deleted", document_id |-> d, ret |-> out.ret]
    /\ RegistryUnchanged

ListDeletableDocuments ==
    /\ fn' = [name |-> "list_deletable_documents", ret |-> list_deletable_documents(registry)]
    /\ UNCHANGED registry
    /\ RegistryUnchanged

NextStores ==
    \/ AddMessage
    \/ PurgeByDocument
    \/ DeleteConversation
    \/ RegisterDocument
    \/ MarkArchivedCall
    \/ MarkDeletedCall
    \/ ListDeletableDocuments

SpecStores == InitStores /\ [][NextStores]_vars

WithoutCitationsOf(m, d) ==
    [m EXCEPT !.sources = SelectSeq(m.sources, LAMBDA s : Meta(s, "document_id") # d)]

\* C27: a purge_by_document(d) that returns leaves every message in place
\* with the same role, content and conversation, its sources being the old
\* ones without the entries of d, in their order; it returns the number of
\* messages whose sources changed; a call that directly follows a purge of
\* the same d returns 0 and changes nothing.
C27_PurgeRemovesExactlyCitations ==
    (fn.name = "purge_by_document" /\ fn.exc = NoException) =>
        /\ messages = {WithoutCitationsOf(m, fn.document_id) : m \in fn.before}
        /\ Cardinality(messages) = Cardinality(fn.before)
        /\ fn.ret = Cardinality({m \in fn.before : m \notin messages})
        /\ fn.repeated => fn.ret = 0 /\ messages = fn.before

C27_Witness ==
    /\ fn.name = "purge_by_document"
    /\ fn.exc = NoException
    /\ fn.ret = 1
    /\ Cardinality(fn.before) = 2
    /\ \E m \in messages : m.sources # <<>>

C27_WitnessSecondCall ==
    /\ fn.name = "purge_by_document"
    /\ fn.repeated
    /\ \E m \in messages : m.sources # <<>>

\* C28: after delete_conversation(c) returned True, no message of
\* conversation c is left in the history store.
C28_DeleteConversationDeletesMessages ==
    (fn.name = "delete_conversation" /\ fn.ret) =>
        \A m \in messages : m.conversation_id # fn.conversation_id

\* C30: a registry status of deleted stays deleted under register_document,
\* mark_archived and mark_deleted, and list_deletable_documents never
\* returns a deleted document.
C30_DeletedIsPermanent ==
    [][\A d \in DocIds :
          registry[d] = "deleted" =>
              /\ registry'[d] = "deleted"
              /\ fn'.name = "list_deletable_documents" => d \notin fn'.ret]_vars

(***************************************************************************)
(* A query running while forget_document runs: caller 1 forgets d1, caller *)
(* 2 asks a question in conversation 1; their collaborator calls interleave*)
(***************************************************************************)
RaceDoc == "d1"

InitRace ==
    /\ collection = TRUE
    /\ index = Points
    /\ messages \in {{}, {InitMessage(1, <<"d1">>)}}
    /\ nextMsgId = Cardinality(messages) + 1
    /\ registry = [d \in DocIds |-> "active"]
    /\ audit = <<>>
    /\ auditEnabled = TRUE
    /\ InitProcs
    /\ InitEngine

NextRace ==
    \/ \E r \in {Len("user_request")} : forget_document(1, RaceDoc, r)
    \/ DeleteVectors(1)
    \/ PurgeSelect(1)
    \/ PurgeUpdate(1)
    \/ MarkDeleted(1)
    \/ AuditLog(1)
    \/ Return(1)
    \/ \E question \in {<<"vacation", "plans">>}, top_k \in {0, 1},
          include_explanation \in BOOLEAN, use_query_preprocessing \in BOOLEAN :
            query(2, question, 1, top_k, TRUE, include_explanation, "None", "None",
                  use_query_preprocessing)
    \/ QuerySteps(2)

SpecRace == InitRace /\ [][NextRace]_vars

Retrieved(p, d) == \E i \in 1..Len(qry[p].nodes) : qry[p].nodes[i].document_id = d

\* C29: when a query that retrieved d and a forget_document(d) that
\* returned success=True have both finished, no stored message cites d
\* (stated for a forget whose every collaborator call worked: d's vectors
\* are gone from the index and the history purge committed).
C29_NoCitationAfterConcurrentForget ==
    (/\ pc[1] = "done" /\ req[1].op = "forget_document" /\ result[1].success
     /\ ~obs[1].faulted /\ Matching(index, "document_id", RaceDoc) = {}
     /\ pc[2] = "done" /\ req[2].op = "query" /\ outcome[2] = "returned"
     /\ Retrieved(2, RaceDoc)) =>
        \A m \in messages : ~Cites(m, RaceDoc)

====
